---- MODULE Spec2Model ----
(***************************************************************************)
(* Anchor durability in obsidian-annotated: the snippet matcher            *)
(* (src/utils/SnippetMatcher.ts), the reconciler and the tracker flush     *)
(* (src/main.ts), the live position tracker                                *)
(* (src/editor/CommentPositionTracker.ts) and the annotation store         *)
(* (src/managers/CommentManager.ts).                                       *)
(*                                                                         *)
(* A JavaScript string is a sequence of one-character strings; a text is   *)
(* kept as the sequence of its lines.  A similarity is the exact           *)
(* rational num/den of the double the code computes; two doubles obtained  *)
(* by one correctly rounded division of small integers compare as the      *)
(* rationals do, so comparisons are done by cross multiplication.          *)
(***************************************************************************)
EXTENDS Integers, Sequences, FiniteSets, TLC

VARIABLES
    args,           \* the arguments of a call of a pure function
    ret,            \* its result
    noteDisk,       \* path -> the note file the vault adapter reads
    persisted,      \* path -> the parsed content of the note's .comments file
    cache,          \* CommentManager.cache: path -> CommentFile
    selfSaveCount,  \* AnnotatedPlugin._selfSaveCount
    guardTimers,    \* number of pending setTimeout(() => _selfSaveCount--, 500)
    edits,          \* number of edits made to the notes, in a buffer or by other tools
    activePath,     \* the path getActiveViewOfType(MarkdownView) gives, NoPath for none
    views,          \* editor view -> its document, tracker field and tracker plugin
    last,           \* what the last handler did (history)
    clock,          \* the time new Date() gives
    heap,           \* object -> the CommentFile it is (JSON.parse or createEmptyCommentFile made it)
    cacheObj,       \* path -> the object CommentManager.cache maps it to
    tasks,          \* the async handlers in flight, each awaiting one promise
    events,         \* path -> vault "modify" events of its .comments file not yet delivered
    started,        \* number of handlers called so far
    settings,       \* AnnotatedPlugin.settings, the two that decide what the gutter shows
    time            \* the clock of the timed sessions and the timeouts that are pending

pureVars == <<args, ret>>
mgrVars == <<clock, heap, cacheObj, tasks, events, started>>
sysVars == <<noteDisk, persisted, cache, selfSaveCount, guardTimers, edits, activePath,
            views, last, clock, heap, cacheObj, tasks, events, started, settings, time>>
vars == <<args, ret, noteDisk, persisted, cache, selfSaveCount, guardTimers, edits,
          activePath, views, last, clock, heap, cacheObj, tasks, events, started, settings, time>>

----------------------------------------------------------------------------
(* Strings *)

SP == " "

Max(x, y) == IF x >= y THEN x ELSE y
Min(x, y) == IF x <= y THEN x ELSE y
Abs(x) == IF x >= 0 THEN x ELSE 0 - x

\* s.startsWith(p)
StartsWith(s, p) == Len(p) <= Len(s) /\ SubSeq(s, 1, Len(p)) = p

\* s.slice(0, n) for n >= 0
Slice0(s, n) == SubSeq(s, 1, Min(n, Len(s)))

\* s.trimEnd(): the whitespace of the model's alphabet is SP
RECURSIVE TrimEnd(_)
TrimEnd(s) ==
    IF s = <<>> THEN s
    ELSE IF s[Len(s)] = SP THEN TrimEnd(SubSeq(s, 1, Len(s) - 1))
    ELSE s

\* n copies of the character c
Rep(c, n) == [i \in 1..n |-> c]

----------------------------------------------------------------------------
(* SnippetMatcher.ts *)

SnippetLen == 50
DefaultRadius == 50

\* the absent result of findLineBySnippet, its results and its TypeError
Null == [kind |-> "null"]
Match(l, c) == [kind |-> "match", line |-> l, confidence |-> c]
TypeError == [kind |-> "throw"]

Rat(n, d) == [num |-> n, den |-> d]
One == Rat(1, 1)
Zero == Rat(0, 1)
Threshold == Rat(7, 10)
RatGE(x, y) == x.num * y.den >= y.num * x.den
RatGT(x, y) == x.num * y.den > y.num * x.den
RatEQ(x, y) == x.num * y.den = y.num * x.den

\* the first 50 characters, trailing whitespace kept
captureSnippetNoTrim(lineContent) == Slice0(lineContent, SnippetLen)

captureSnippet(lineContent) == TrimEnd(Slice0(lineContent, SnippetLen))

\* the bigrams of s and the multiplicity of one of them (the Map of `bigrams`)
BigramsOf(s) == {<<s[i], s[i + 1]>> : i \in 1..(Len(s) - 1)}
BigramCount(s, bg) == Cardinality({i \in 1..(Len(s) - 1) : <<s[i], s[i + 1]>> = bg})

RECURSIVE SumMin(_, _, _)
SumMin(bgs, a, b) ==
    IF bgs = {} THEN 0
    ELSE LET bg == CHOOSE x \in bgs : TRUE
         IN Min(BigramCount(a, bg), BigramCount(b, bg)) + SumMin(bgs \ {bg}, a, b)

bigramSimilarityNoIdentity(a, b) ==
    IF Len(a) < 2 \/ Len(b) < 2 THEN Zero
    ELSE Rat(2 * SumMin(BigramsOf(a), a, b), (Len(a) - 1) + (Len(b) - 1))

bigramSimilarity(a, b) ==
    IF a = b THEN One
    ELSE IF Len(a) < 2 \/ Len(b) < 2 THEN Zero
    ELSE Rat(2 * SumMin(BigramsOf(a), a, b), (Len(a) - 1) + (Len(b) - 1))

\* docLines[i] of a 0-indexed array: undefined outside 0..length-1
Defined(docLines, i) == i >= 0 /\ i < Len(docLines)
At(docLines, i) == docLines[i + 1]

\* Phase 1, the loop over d: reading startsWith of an undefined element throws
RECURSIVE ScanOutward(_, _, _, _, _, _, _)
ScanOutward(docLines, snippet, hintLine, radius, lo, hi, d) ==
    IF d > radius THEN Null
    ELSE IF hintLine - d >= lo /\ ~Defined(docLines, hintLine - d) THEN TypeError
    ELSE IF hintLine - d >= lo /\ StartsWith(At(docLines, hintLine - d), snippet)
        THEN Match(hintLine - d, One)
    ELSE IF hintLine + d <= hi /\ ~Defined(docLines, hintLine + d) THEN TypeError
    ELSE IF hintLine + d <= hi /\ StartsWith(At(docLines, hintLine + d), snippet)
        THEN Match(hintLine + d, One)
    ELSE ScanOutward(docLines, snippet, hintLine, radius, lo, hi, d + 1)

\* Phase 2, the loop over i; best = (bestLine, bestSim, bestDist), bestDist -1 is Infinity
Better(sim, dist, best) ==
    \/ RatGT(sim, best.sim)
    \/ RatEQ(sim, best.sim) /\ (best.dist = -1 \/ dist < best.dist)

\* the body of the phase 2 loop for line i with similarity sim: the new best
Keep(i, sim, dist, best) ==
    IF RatGE(sim, Threshold) /\ Better(sim, dist, best)
    THEN [line |-> i, sim |-> sim, dist |-> dist]
    ELSE best

RECURSIVE FuzzyScan(_, _, _, _, _, _)
FuzzyScan(docLines, snippet, hintLine, i, hi, best) ==
    IF i > hi THEN best
    ELSE FuzzyScan(docLines, snippet, hintLine, i + 1, hi,
                   Keep(i, bigramSimilarity(snippet, TrimEnd(Slice0(At(docLines, i), SnippetLen))),
                        Abs(i - hintLine), best))

\* the end of phase 2 and phase 3
BestOrNull(best) == IF best.line >= 0 THEN Match(best.line, best.sim) ELSE Null

\* phases 2 and 3 run when phase 1 neither returned nor threw
AfterExact(exact, docLines, snippet, hintLine, lo, hi) ==
    IF exact # Null THEN exact
    ELSE BestOrNull(FuzzyScan(docLines, snippet, hintLine, lo, hi,
                              [line |-> -1, sim |-> Zero, dist |-> -1]))

findLineBySnippet(docLines, snippet, hintLine, radius) ==
    IF snippet = <<>> THEN Null
    ELSE LET lo == Max(0, hintLine - radius)
             hi == Min(Len(docLines) - 1, hintLine + radius)
         IN IF Defined(docLines, hintLine) /\ StartsWith(At(docLines, hintLine), snippet)
            THEN Match(hintLine, One)
            ELSE AfterExact(ScanOutward(docLines, snippet, hintLine, radius, lo, hi, 1),
                            docLines, snippet, hintLine, lo, hi)

----------------------------------------------------------------------------
(* Files, stores and annotations *)

MaxComments == 2
MaxEdits == 1
MaxSelfSave == 1

Paths == {"A.md", "B.md"}
CommentIds == 1..MaxComments

\* a missing content_snippet; `!snippet` holds for it and for the empty string
Undefined == <<"undefined">>
Falsy(snippet) == snippet = Undefined \/ snippet = <<>>

\* the result of adapter.read(path): a rejected promise, or a text, kept as the
\* lines text.split("\n") yields (a line holds no line break); the empty text is the
\* single empty line
Unreadable == [ok |-> FALSE, lines |-> <<>>]
File(lines) == [ok |-> TRUE, lines |-> lines]
EmptyText(f) == f.lines = << <<>> >>

\* a CommentFile, and the null of getComments
NoStore == [exists |-> FALSE, note_path |-> "", comments |-> <<>>]
CommentFile(p, cs) == [exists |-> TRUE, note_path |-> p, comments |-> cs]

\* a Comment; is_stale absent reads as false
NewComment(id, startLine, endLine, snippet) ==
    [id |-> id, start_line |-> startLine, end_line |-> endLine,
     content_snippet |-> snippet, is_stale |-> FALSE, status |-> "open"]

\* DEFAULT_SETTINGS, and the settings a user can choose
DefaultSettings == [showGutterIndicators |-> TRUE, hideResolvedByDefault |-> TRUE]
AllSettings == [showGutterIndicators : BOOLEAN, hideResolvedByDefault : BOOLEAN]

\* CommentManager.getComments: the cached store, else the persisted one (cached by the call)
getComments(p) == IF cache[p].exists THEN cache[p] ELSE persisted[p]

----------------------------------------------------------------------------
(* The editor views: CodeMirror documents, commentTrackerField, tracker plugin *)

Views == {"v1"}
NoPath == ""

\* a Map<string, number> is a function on the ids it holds
EmptyMap == [id \in {} |-> 0]

\* a CommentLineInfo, and a CommentLineMap as a function on the lines it holds
Bucket(count, hasStale, allResolved) ==
    [count |-> count, hasStale |-> hasStale, allResolved |-> allResolved]
EmptyLineMap == [l \in {} |-> Bucket(0, FALSE, TRUE)]
Put(map, line, info) ==
    [l \in DOMAIN map \cup {line} |-> IF l = line THEN info ELSE map[l]]

\* no editor shows a note; an editor that has just loaded a note
ClosedView ==
    [open |-> FALSE, path |-> NoPath, doc |-> <<>>, offsets |-> EmptyMap,
     timer |-> FALSE, lastSnapshot |-> EmptyMap, lineMap |-> EmptyLineMap]
OpenedView(p, lines) ==
    [open |-> TRUE, path |-> p, doc |-> lines, offsets |-> EmptyMap,
     timer |-> FALSE, lastSnapshot |-> EmptyMap, lineMap |-> EmptyLineMap]

\* the lines the editor of note p shows: its buffer, or the file it loads
EditorLines(p) ==
    IF \E v \in Views : views[v].open /\ views[v].path = p
    THEN views[CHOOSE v \in Views : views[v].open /\ views[v].path = p].doc
    ELSE noteDisk[p].lines

\* doc.line(n).from, doc.length and doc.lineAt(pos).number
RECURSIVE LineFrom(_, _)
LineFrom(doc, n) == IF n <= 1 THEN 0 ELSE LineFrom(doc, n - 1) + Len(doc[n - 1]) + 1
DocLength(doc) == LineFrom(doc, Len(doc)) + Len(doc[Len(doc)])
LineAt(doc, pos) ==
    CHOOSE n \in 1..Len(doc) :
        /\ LineFrom(doc, n) <= pos
        /\ n = Len(doc) \/ pos < LineFrom(doc, n + 1)

\* ChangeDesc.mapPos(pos, 1) for the change that replaces [from, to) by ins characters
MapPos(pos, from, to, ins) ==
    IF pos < from THEN pos
    ELSE IF to > pos THEN (IF pos = from THEN from ELSE from + ins)
    ELSE from + ins + (pos - to)

\* the positions initTrackerPositions computes for a document
TrackerPositions(comments, doc) ==
    LET seeded == {i \in 1..Len(comments) :
                      comments[i].start_line >= 1 /\ comments[i].start_line <= Len(doc)}
        LastOf(id) == CHOOSE i \in seeded :
                          /\ comments[i].id = id
                          /\ \A j \in seeded : comments[j].id = id => j <= i
    IN  [id \in {comments[i].id : i \in seeded} |->
            LineFrom(doc, comments[LastOf(id)].start_line)]

initTrackerPositions(filePath, commentFile, vs) ==
    [v \in Views |->
        IF vs[v].open /\ vs[v].path = filePath
        THEN [vs[v] EXCEPT !.offsets = TrackerPositions(commentFile.comments, vs[v].doc)]
        ELSE vs[v]]

\* a mutant of Bucketed: a bucket counts as resolved when its last annotation is
BucketedLastResolved(map, c) ==
    IF c.start_line \in DOMAIN map
    THEN Put(map, c.start_line,
             Bucket(map[c.start_line].count + 1,
                    map[c.start_line].hasStale \/ c.is_stale,
                    c.status = "resolved"))
    ELSE Put(map, c.start_line, Bucket(1, c.is_stale, c.status = "resolved"))

\* refreshGutterForFile l.287-297: comment c enters the bucket of its line
Bucketed(map, c) ==
    IF c.start_line \in DOMAIN map
    THEN Put(map, c.start_line,
             Bucket(map[c.start_line].count + 1,
                    map[c.start_line].hasStale \/ c.is_stale,
                    map[c.start_line].allResolved /\ c.status = "resolved"))
    ELSE Put(map, c.start_line, Bucket(1, c.is_stale, c.status = "resolved"))

\* the loop of refreshGutterForFile from comment i on, under the settings st
RECURSIVE BuildLineMap(_, _, _, _)
BuildLineMap(st, map, comments, i) ==
    IF i > Len(comments) THEN map
    ELSE BuildLineMap(st,
                      IF st.hideResolvedByDefault /\ comments[i].status = "resolved"
                      THEN map ELSE Bucketed(map, comments[i]),
                      comments, i + 1)

LineMapOf(st, commentFile) ==
    IF commentFile.exists /\ st.showGutterIndicators
    THEN BuildLineMap(st, EmptyLineMap, commentFile.comments, 1)
    ELSE EmptyLineMap

\* refreshGutterForFile when this.settings is st: the line map goes to every
\* view of the file, then the tracker is seeded if there is a store
refreshGutter(st, filePath, commentFile, vs) ==
    LET lineMap == LineMapOf(st, commentFile)
        shown == [v \in Views |->
                     IF vs[v].open /\ vs[v].path = filePath
                     THEN [vs[v] EXCEPT !.lineMap = lineMap] ELSE vs[v]]
    IN  IF commentFile.exists THEN initTrackerPositions(filePath, commentFile, shown)
        ELSE shown

\* refreshGutterForFile in a handler that leaves the settings alone
refreshGutterForFile(filePath, commentFile, vs) ==
    refreshGutter(settings, filePath, commentFile, vs)

\* a mutant of Merged: the bucket that comes later replaces the one on the line
MergedOverwrite(map, line, info) == Put(map, line, info)

\* commentLineField.update l.70-77: a bucket arrives on its new line
Merged(map, line, info) ==
    IF line \in DOMAIN map
    THEN Put(map, line, Bucket(map[line].count + info.count,
                               map[line].hasStale \/ info.hasStale,
                               map[line].allResolved /\ info.allResolved))
    ELSE Put(map, line, info)

\* commentLineField.update l.60-78 for the buckets of the lines in `rest`, for
\* the change that replaces [from, to) by ins characters; the merge does not
\* depend on the order of the buckets, they are taken by ascending line
RECURSIVE RemapFrom(_, _, _, _, _, _, _, _)
RemapFrom(newMap, prev, rest, startDoc, newDoc, from, to, ins) ==
    IF rest = {} THEN newMap
    ELSE LET line == CHOOSE l \in rest : \A m \in rest : l <= m
             newPos == MapPos(LineFrom(startDoc, line), from, to, ins)
         IN  RemapFrom(IF line < 1 \/ line > Len(startDoc) THEN newMap
                       ELSE IF newPos < 0 \/ newPos > DocLength(newDoc) THEN newMap
                       ELSE Merged(newMap, LineAt(newDoc, newPos), prev[line]),
                       prev, rest \ {line}, startDoc, newDoc, from, to, ins)

\* commentLineField.update for a transaction that changes the document
Remap(prev, startDoc, newDoc, from, to, ins) ==
    IF DOMAIN prev = {} THEN prev
    ELSE RemapFrom(EmptyLineMap, prev, DOMAIN prev, startDoc, newDoc, from, to, ins)

----------------------------------------------------------------------------
(* main.ts: verifyAndRelocateComments *)

\* a relocation that moves start_line and leaves end_line where it was
RelocateKeepsEnd(comment, docLines, result) ==
    IF result = TypeError
    THEN [comment |-> comment, changed |-> FALSE, outcome |-> "throw"]
    ELSE IF result # Null
    THEN [comment |-> [comment EXCEPT
                          !.start_line = result.line + 1,
                          !.content_snippet = captureSnippet(At(docLines, result.line)),
                          !.is_stale = FALSE],
          changed |-> TRUE, outcome |-> "relocated"]
    ELSE [comment |-> [comment EXCEPT !.is_stale = TRUE],
          changed |-> ~comment.is_stale, outcome |-> "notFound"]

\* a failed relocation that also forgets the snippet it could not find
RelocateForgetsSnippet(comment, docLines, result) ==
    IF result = TypeError
    THEN [comment |-> comment, changed |-> FALSE, outcome |-> "throw"]
    ELSE IF result # Null
    THEN LET newLine1 == result.line + 1
             lineDelta == newLine1 - comment.start_line
         IN [comment |-> [comment EXCEPT
                             !.start_line = newLine1,
                             !.end_line = @ + lineDelta,
                             !.content_snippet = captureSnippet(At(docLines, result.line)),
                             !.is_stale = FALSE],
             changed |-> TRUE, outcome |-> "relocated"]
    ELSE [comment |-> [comment EXCEPT !.is_stale = TRUE, !.content_snippet = <<>>],
          changed |-> TRUE, outcome |-> "notFound"]

\* the mismatch branch of the loop, given the matcher's result
Relocate(comment, docLines, result) ==
    IF result = TypeError
    THEN [comment |-> comment, changed |-> FALSE, outcome |-> "throw"]
    ELSE IF result # Null
    THEN LET newLine1 == result.line + 1
             lineDelta == newLine1 - comment.start_line
         IN [comment |-> [comment EXCEPT
                             !.start_line = newLine1,
                             !.end_line = @ + lineDelta,
                             !.content_snippet = captureSnippet(At(docLines, result.line)),
                             !.is_stale = FALSE],
             changed |-> TRUE, outcome |-> "relocated"]
    ELSE [comment |-> [comment EXCEPT !.is_stale = TRUE],
          changed |-> ~comment.is_stale, outcome |-> "notFound"]

\* the body of the loop for one comment: the comment after it, whether it set
\* `changed`, and what happened
ReconcileOne(comment, docLines) ==
    LET storedLine == comment.start_line - 1
        snippet == comment.content_snippet
    IN  IF Falsy(snippet)
        THEN IF storedLine >= 0 /\ storedLine < Len(docLines)
             THEN [comment |-> [comment EXCEPT !.content_snippet =
                                   captureSnippet(At(docLines, storedLine))],
                   changed |-> TRUE, outcome |-> "backfill"]
             ELSE [comment |-> comment, changed |-> FALSE, outcome |-> "legacy"]
        ELSE IF storedLine >= 0 /\ storedLine < Len(docLines)
                /\ StartsWith(At(docLines, storedLine), snippet)
        THEN [comment |-> [comment EXCEPT !.is_stale = FALSE],
              changed |-> comment.is_stale, outcome |-> "confirmed"]
        ELSE Relocate(comment, docLines,
                      findLineBySnippet(docLines, snippet, storedLine, DefaultRadius))

\* the loop over commentFile.comments from index i; a TypeError leaves the loop
\* and the function, with the comments before it already mutated
RECURSIVE ReconcileLoop(_, _, _, _, _)
RECURSIVE ReconcileNext(_, _, _, _, _, _)
ReconcileLoop(comments, docLines, i, changed, outcomes) ==
    IF i > Len(comments)
    THEN [comments |-> comments, changed |-> changed, outcomes |-> outcomes, thrown |-> FALSE]
    ELSE ReconcileNext(comments, docLines, i, changed, outcomes,
                       ReconcileOne(comments[i], docLines))
ReconcileNext(comments, docLines, i, changed, outcomes, r) ==
    IF r.outcome = "throw"
    THEN [comments |-> comments, changed |-> changed,
          outcomes |-> outcomes \o [j \in 1..(Len(comments) - i + 1) |->
                                      IF j = 1 THEN "throw" ELSE "unprocessed"],
          thrown |-> TRUE]
    ELSE ReconcileLoop([comments EXCEPT ![i] = r.comment], docLines, i + 1,
                       changed \/ r.changed, Append(outcomes, r.outcome))

\* the record of a handler: the store it worked on and the comments it found,
\* what it did to each, how often it called saveComments, the handler before
\* it, and the last edit of a buffer that no flush has followed yet.  An edit
\* also records the note it found, where it changed it, and the lines of the
\* tracked annotations.
BufferEdits == {"insertLines", "removeLines", "editLine"}
NoSummary == [op |-> "none", pre |-> <<>>, preLines |-> <<>>, k |-> 0, at |-> 0]
NoEdit == [op |-> "none", path |-> NoPath, pre |-> <<>>, k |-> 0, at |-> 0,
           tracked |-> EmptyMap]
Summary(h) ==
    IF h.op = "insert" THEN [op |-> h.op, pre |-> h.pre, preLines |-> h.preLines,
                             k |-> h.k, at |-> h.at]
    ELSE IF h.op \in {"reconcile"} \cup BufferEdits THEN [NoSummary EXCEPT !.op = h.op]
    ELSE NoSummary
Carry == IF last.op = "flush" THEN NoEdit ELSE last.edit
NoHandler ==
    [op |-> "none", path |-> NoPath, pre |-> <<>>, preLines |-> <<>>, k |-> 0, at |-> 0,
     outcomes |-> <<>>, saves |-> 0, completed |-> TRUE, prev |-> NoSummary,
     edit |-> NoEdit]
Reconciled(p, pre, outcomes, saves, completed) ==
    [NoHandler EXCEPT !.op = "reconcile", !.path = p, !.pre = pre, !.outcomes = outcomes,
                      !.saves = saves, !.completed = completed, !.prev = Summary(last),
                      !.edit = Carry]
Inserted(p, pre, preLines, k, at) ==
    [NoHandler EXCEPT !.op = "insert", !.path = p, !.pre = pre, !.preLines = preLines,
                      !.k = k, !.at = at, !.edit = Carry]
Edited(op, p, pre, k, at, tracked) ==
    [NoHandler EXCEPT !.op = op, !.path = p, !.k = k, !.at = at,
                      !.edit = [op |-> op, path |-> p, pre |-> pre, k |-> k, at |-> at,
                                tracked |-> tracked]]
Flushed(p, pre, outcomes, saves) ==
    [NoHandler EXCEPT !.op = "flush", !.path = p, !.pre = pre, !.outcomes = outcomes,
                      !.saves = saves, !.prev = Summary(last), !.edit = last.edit]
Did(op) == [NoHandler EXCEPT !.op = op, !.edit = Carry]

\* a mutant of ActiveLeafChange: a note that cannot be read is reconciled as a
\* note without lines
ActiveLeafChangeNoReadCheck(p) ==
    LET commentFile == getComments(p)
    IN  /\ activePath' = p
        /\ IF \/ ~commentFile.exists
              \/ Len(commentFile.comments) = 0
              \/ EmptyText(noteDisk[p])
           THEN /\ cache' = [cache EXCEPT ![p] = commentFile]
                /\ views' = refreshGutterForFile(p, commentFile, views)
                /\ last' = Reconciled(p, commentFile.comments, <<>>, 0, TRUE)
                /\ UNCHANGED <<noteDisk, persisted, selfSaveCount, guardTimers, edits>>
           ELSE \E r \in {ReconcileLoop(commentFile.comments, noteDisk[p].lines,
                                         1, FALSE, <<>>)} :
                LET mutated == [commentFile EXCEPT !.comments = r.comments]
                    save == r.changed /\ ~r.thrown
                IN  /\ save => guardTimers < MaxSelfSave
                    /\ cache' = [cache EXCEPT ![p] = mutated]
                    /\ persisted' = IF save
                                    THEN [persisted EXCEPT ![mutated.note_path] = mutated]
                                    ELSE persisted
                    /\ selfSaveCount' = IF save THEN selfSaveCount + 1 ELSE selfSaveCount
                    /\ guardTimers' = IF save THEN guardTimers + 1 ELSE guardTimers
                    /\ views' = IF r.thrown THEN views
                                ELSE refreshGutterForFile(p, mutated, views)
                    /\ last' = Reconciled(p, commentFile.comments, r.outcomes,
                                          IF save THEN 1 ELSE 0, ~r.thrown)
                    /\ UNCHANGED <<noteDisk, edits>>

\* the "active-leaf-change" handler for the leaf of note p, and the same steps
\* of onLayoutReady: verifyAndRelocateComments, then refreshGutterForFile, which
\* a TypeError of the first keeps from running
ActiveLeafChange(p) ==
    LET commentFile == getComments(p)
    IN  /\ activePath' = p
        /\ IF \/ ~commentFile.exists
              \/ Len(commentFile.comments) = 0
              \/ ~noteDisk[p].ok
              \/ EmptyText(noteDisk[p])
           THEN /\ cache' = [cache EXCEPT ![p] = commentFile]
                /\ views' = refreshGutterForFile(p, commentFile, views)
                /\ last' = Reconciled(p, commentFile.comments, <<>>, 0, TRUE)
                /\ UNCHANGED <<noteDisk, persisted, selfSaveCount, guardTimers, edits>>
           ELSE \E r \in {ReconcileLoop(commentFile.comments, noteDisk[p].lines,
                                         1, FALSE, <<>>)} :
                LET mutated == [commentFile EXCEPT !.comments = r.comments]
                    save == r.changed /\ ~r.thrown
                IN  /\ save => guardTimers < MaxSelfSave
                    /\ cache' = [cache EXCEPT ![p] = mutated]
                    /\ persisted' = IF save
                                    THEN [persisted EXCEPT ![mutated.note_path] = mutated]
                                    ELSE persisted
                    /\ selfSaveCount' = IF save THEN selfSaveCount + 1 ELSE selfSaveCount
                    /\ guardTimers' = IF save THEN guardTimers + 1 ELSE guardTimers
                    /\ views' = IF r.thrown THEN views
                                ELSE refreshGutterForFile(p, mutated, views)
                    /\ last' = Reconciled(p, commentFile.comments, r.outcomes,
                                          IF save THEN 1 ELSE 0, ~r.thrown)
                    /\ UNCHANGED <<noteDisk, edits>>

\* a leaf that shows no note becomes the active one: the handler returns, and
\* getActiveViewOfType(MarkdownView) is null from now on
ActiveLeafChangeOther ==
    /\ activePath # NoPath
    /\ activePath' = NoPath
    /\ last' = Did("leafChange")
    /\ UNCHANGED <<noteDisk, persisted, cache, selfSaveCount, guardTimers, edits, views>>

\* the timeout of a guarded write fires
GuardExpire ==
    /\ guardTimers > 0
    /\ guardTimers' = guardTimers - 1
    /\ selfSaveCount' = selfSaveCount - 1
    /\ UNCHANGED <<noteDisk, persisted, cache, edits, activePath, views, last>>

----------------------------------------------------------------------------
(* main.ts: addCommentAtCursor, CommentManager.addComment *)

UsedIds(p) == {getComments(p).comments[i].id : i \in 1..Len(getComments(p).comments)}

\* the user comments lines startLine..endLine of the active note in its editor
AddComment(p, startLine, endLine) ==
    /\ activePath = p
    /\ noteDisk[p].ok
    /\ \E lines \in {EditorLines(p)} :
       LET old == getComments(p)
           commentFile == IF old.exists THEN old ELSE CommentFile(p, <<>>)
       IN  /\ startLine \in 1..Len(lines)
           /\ endLine \in startLine..Len(lines)
           /\ CommentIds \ UsedIds(p) # {}
           /\ LET id == CHOOSE i \in CommentIds \ UsedIds(p) :
                            \A j \in CommentIds \ UsedIds(p) : i <= j
                  comment == NewComment(id, startLine, endLine,
                                        captureSnippet(lines[startLine]))
                  saved == [commentFile EXCEPT !.comments = Append(@, comment)]
              IN  /\ persisted' = [persisted EXCEPT ![saved.note_path] = saved]
                  /\ cache' = [cache EXCEPT ![saved.note_path] = saved]
                  /\ views' = refreshGutterForFile(p, saved, views)
                  /\ last' = Did("add")
    /\ UNCHANGED <<noteDisk, selfSaveCount, guardTimers, edits, activePath>>

----------------------------------------------------------------------------
(* Edits in an editor view: commentTrackerField.update and the plugin's update *)

MaxBufferEdits == 1
MaxBurst == 2

\* setTimeout delays in milliseconds: the release of the self-save guard and
\* the debounce of the tracker; the clock of the model counts steps of UnitMs
GuardHoldMs == 500
DebounceMs == 2000
UnitMs == 500
GuardHold == GuardHoldMs \div UnitMs
Debounce == DebounceMs \div UnitMs

\* a session without a clock: no time passes and no timeout is kept
Never == 0 - 1
NoTime ==
    [clocked |-> FALSE, now |-> 0, guards |-> {}, pending |-> [v \in Views |-> {}],
     handle |-> [v \in Views |-> Never], lastEdit |-> [v \in Views |-> Never],
     fired |-> [v \in Views |-> 0], lastWrite |-> Never, notice |-> FALSE]

\* the buffer edits a session may make
EditBound == IF time.clocked THEN MaxBurst ELSE MaxBufferEdits

\* the lines the tracker field holds for the tracked ids
TrackedLines(view) ==
    [id \in DOMAIN view.offsets |->
        LineAt(view.doc, Min(view.offsets[id], DocLength(view.doc)))]

\* one transaction that replaces [from, to) by ins characters and yields doc2:
\* every offset is mapped, and scheduleSave restarts the timer
BufferChange(v, from, to, ins, doc2, op, k, at) ==
    /\ edits < EditBound
    /\ views' = [views EXCEPT ![v] = [@ EXCEPT
           !.doc = doc2,
           !.offsets = [id \in DOMAIN @ |-> MapPos(@[id], from, to, ins)],
           !.lineMap = Remap(@, views[v].doc, doc2, from, to, ins),
           !.timer = TRUE]]
    /\ edits' = edits + 1
    /\ last' = Edited(op, views[v].path, getComments(views[v].path).comments, k, at,
                      TrackedLines(views[v]))
    /\ UNCHANGED <<noteDisk, persisted, cache, selfSaveCount, guardTimers, activePath>>

\* the user types k line breaks at the start of line `at`
InsertLines(v, k, at) ==
    /\ views[v].open
    /\ activePath = views[v].path
    /\ \E doc \in {views[v].doc} :
           /\ at \in 1..Len(doc)
           /\ BufferChange(v, LineFrom(doc, at), LineFrom(doc, at), k,
                           SubSeq(doc, 1, at - 1) \o [i \in 1..k |-> <<>>]
                               \o SubSeq(doc, at, Len(doc)),
                           "insertLines", k, at)

\* the user deletes lines at..at+k-1 with their line breaks; a line stays
RemoveLines(v, k, at) ==
    /\ views[v].open
    /\ activePath = views[v].path
    /\ \E doc \in {views[v].doc} :
           /\ at \in 1..Len(doc)
           /\ at + k - 1 <= Len(doc)
           /\ k < Len(doc)
           /\ BufferChange(v,
                  IF at + k <= Len(doc) THEN LineFrom(doc, at) ELSE LineFrom(doc, at) - 1,
                  IF at + k <= Len(doc) THEN LineFrom(doc, at + k) ELSE DocLength(doc),
                  0,
                  SubSeq(doc, 1, at - 1) \o SubSeq(doc, at + k, Len(doc)),
                  "removeLines", k, at)

\* the user replaces the content of line `at`
EditLine(v, at, line) ==
    /\ views[v].open
    /\ activePath = views[v].path
    /\ \E doc \in {views[v].doc} :
           /\ at \in 1..Len(doc)
           /\ doc[at] # line
           /\ BufferChange(v, LineFrom(doc, at), LineFrom(doc, at) + Len(doc[at]),
                           Len(line), [doc EXCEPT ![at] = line], "editLine", 0, at)

\* the user types a line break after the first col characters of line `at`
SplitLine(v, at, col) ==
    /\ views[v].open
    /\ activePath = views[v].path
    /\ \E doc \in {views[v].doc} :
           /\ at \in 1..Len(doc)
           /\ col \in 1..Len(doc[at])
           /\ BufferChange(v, LineFrom(doc, at) + col, LineFrom(doc, at) + col, 1,
                           SubSeq(doc, 1, at - 1)
                               \o <<SubSeq(doc[at], 1, col),
                                     SubSeq(doc[at], col + 1, Len(doc[at]))>>
                               \o SubSeq(doc, at + 1, Len(doc)),
                           "splitLine", 1, at)

\* the editor writes its buffer to the note file
SaveNote(v) ==
    /\ views[v].open
    /\ noteDisk[views[v].path] # File(views[v].doc)
    /\ noteDisk' = [noteDisk EXCEPT ![views[v].path] = File(views[v].doc)]
    /\ UNCHANGED <<persisted, cache, selfSaveCount, guardTimers, edits, activePath,
                   views, last>>

----------------------------------------------------------------------------
(* The flush: savePositions of the tracker plugin, saveTrackedPositions of main.ts *)

\* a mutant of TrackOne: the end line stays where it was
TrackOneKeepsEnd(comment, lineUpdates, docLines) ==
    IF comment.id \notin DOMAIN lineUpdates
    THEN [comment |-> comment, changed |-> FALSE, outcome |-> "untracked"]
    ELSE IF comment.start_line = lineUpdates[comment.id]
    THEN [comment |-> comment, changed |-> FALSE, outcome |-> "kept"]
    ELSE LET newLine == lineUpdates[comment.id]
             idx == newLine - 1
         IN [comment |-> [comment EXCEPT
                             !.start_line = newLine,
                             !.content_snippet =
                                 IF idx >= 0 /\ idx < Len(docLines)
                                 THEN captureSnippet(At(docLines, idx)) ELSE @],
             changed |-> TRUE, outcome |-> "moved"]

\* the body of the loop of saveTrackedPositions for one comment
TrackOne(comment, lineUpdates, docLines) ==
    IF comment.id \notin DOMAIN lineUpdates
    THEN [comment |-> comment, changed |-> FALSE, outcome |-> "untracked"]
    ELSE IF comment.start_line = lineUpdates[comment.id]
    THEN [comment |-> comment, changed |-> FALSE, outcome |-> "kept"]
    ELSE LET newLine == lineUpdates[comment.id]
             lineDelta == newLine - comment.start_line
             idx == newLine - 1
         IN [comment |-> [comment EXCEPT
                             !.start_line = newLine,
                             !.end_line = @ + lineDelta,
                             !.content_snippet =
                                 IF idx >= 0 /\ idx < Len(docLines)
                                 THEN captureSnippet(At(docLines, idx)) ELSE @],
             changed |-> TRUE, outcome |-> "moved"]

TrackAll(rs) ==
    [comments |-> [i \in DOMAIN rs |-> rs[i].comment],
     changed |-> \E i \in DOMAIN rs : rs[i].changed,
     outcomes |-> [i \in DOMAIN rs |-> rs[i].outcome]]

saveTrackedPositions(commentFile, lineUpdates, docLines) ==
    TrackAll([i \in 1..Len(commentFile.comments) |->
                 TrackOne(commentFile.comments[i], lineUpdates, docLines)])

\* lineUpdates differs from the last snapshot in size or in the line of an id
SnapshotChanged(lineUpdates, lastSnapshot) ==
    \/ Cardinality(DOMAIN lineUpdates) # Cardinality(DOMAIN lastSnapshot)
    \/ \E id \in DOMAIN lineUpdates :
           id \notin DOMAIN lastSnapshot \/ lastSnapshot[id] # lineUpdates[id]

\* the debounce timer of view v fires
Flush(v) ==
    /\ views[v].open
    /\ views[v].timer
    /\ \E lineUpdates \in {TrackedLines(views[v])} :
       LET filePath == activePath
           call == /\ filePath # NoPath
                   /\ DOMAIN lineUpdates # {}
                   /\ SnapshotChanged(lineUpdates, views[v].lastSnapshot)
           target == IF call THEN filePath ELSE views[v].path
           commentFile == getComments(target)
           docLines == IF noteDisk[target].ok /\ ~EmptyText(noteDisk[target])
                       THEN noteDisk[target].lines ELSE <<>>
       IN  /\ views' = [views EXCEPT ![v] = [@ EXCEPT
                  !.timer = FALSE,
                  !.lastSnapshot = IF call THEN lineUpdates ELSE @]]
           /\ IF ~call \/ ~commentFile.exists
              THEN /\ last' = Flushed(target, commentFile.comments, <<>>, 0)
                   /\ UNCHANGED <<persisted, cache, selfSaveCount, guardTimers>>
              ELSE \E r \in {saveTrackedPositions(commentFile, lineUpdates, docLines)} :
                   LET mutated == [commentFile EXCEPT !.comments = r.comments]
                   IN  /\ r.changed => guardTimers < MaxSelfSave
                       /\ cache' = [cache EXCEPT ![target] = mutated]
                       /\ persisted' =
                              IF r.changed
                              THEN [persisted EXCEPT ![mutated.note_path] = mutated]
                              ELSE persisted
                       /\ selfSaveCount' = IF r.changed THEN selfSaveCount + 1
                                           ELSE selfSaveCount
                       /\ guardTimers' = IF r.changed THEN guardTimers + 1
                                         ELSE guardTimers
                       /\ last' = Flushed(target, commentFile.comments, r.outcomes,
                                          IF r.changed THEN 1 ELSE 0)
    /\ UNCHANGED <<noteDisk, edits, activePath>>

----------------------------------------------------------------------------
(* Edits of a note file by another tool while no editor view shows it *)

NotShown(p) == \A v \in Views : ~(views[v].open /\ views[v].path = p)

BlankLines(k) == [i \in 1..k |-> <<>>]

\* k blank lines are inserted before line `at`
InsertBlankLines(p, k, at) ==
    /\ noteDisk[p].ok
    /\ NotShown(p)
    /\ edits < MaxEdits
    /\ \E lines \in {noteDisk[p].lines} :
           /\ at \in 1..Len(lines)
           /\ noteDisk' = [noteDisk EXCEPT ![p] =
                  File(SubSeq(lines, 1, at - 1) \o BlankLines(k)
                       \o SubSeq(lines, at, Len(lines)))]
    /\ edits' = edits + 1
    /\ last' = Inserted(p, getComments(p).comments, noteDisk[p].lines, k, at)
    /\ UNCHANGED <<persisted, cache, selfSaveCount, guardTimers, activePath, views>>

\* lines at..at+k-1 are removed; at least one line stays
DeleteLines(p, k, at) ==
    /\ noteDisk[p].ok
    /\ NotShown(p)
    /\ edits < MaxEdits
    /\ \E lines \in {noteDisk[p].lines} :
           /\ at \in 1..Len(lines)
           /\ at + k - 1 <= Len(lines)
           /\ k < Len(lines)
           /\ noteDisk' = [noteDisk EXCEPT ![p] =
                  File(SubSeq(lines, 1, at - 1) \o SubSeq(lines, at + k, Len(lines)))]
    /\ edits' = edits + 1
    /\ last' = Did("delete")
    /\ UNCHANGED <<persisted, cache, selfSaveCount, guardTimers, activePath, views>>

\* line `at` is rewritten
ReplaceLine(p, at, line) ==
    /\ noteDisk[p].ok
    /\ NotShown(p)
    /\ edits < MaxEdits
    /\ \E lines \in {noteDisk[p].lines} :
           /\ at \in 1..Len(lines)
           /\ lines[at] # line
           /\ noteDisk' = [noteDisk EXCEPT ![p] = File([lines EXCEPT ![at] = line])]
    /\ edits' = edits + 1
    /\ last' = Did("replace")
    /\ UNCHANGED <<persisted, cache, selfSaveCount, guardTimers, activePath, views>>

\* the note is emptied, or can no longer be read
Truncate(p) ==
    /\ noteDisk[p].ok
    /\ NotShown(p)
    /\ edits < MaxEdits
    /\ \E f \in {File(<< <<>> >>), Unreadable} : noteDisk' = [noteDisk EXCEPT ![p] = f]
    /\ edits' = edits + 1
    /\ last' = Did("truncate")
    /\ UNCHANGED <<persisted, cache, selfSaveCount, guardTimers, activePath, views>>

----------------------------------------------------------------------------
(* CommentManager.ts: annotations with their thread, stores with their metadata *)

MaxClock == 1
Times == 0..MaxClock
Authors == {"alice", "bob"}
\* settings.defaultAuthor
DefaultAuthor == "bob"
Statuses == {"open", "resolved", "archived"}

\* an optional field: absent, or set to a value
Absent == <<>>
Set(v) == <<v>>

\* a CommentReply as handleReply builds it, for any author and created_at
NewReply(author, createdAt) == [author |-> author, created_at |-> createdAt]

\* a Comment as addCommentAtCursor builds it
Comment(id, author, now, startLine, endLine, snippet) ==
    [id |-> id, author |-> author, created_at |-> now, updated_at |-> now,
     start_line |-> startLine, end_line |-> endLine, status |-> "open",
     resolved_at |-> Absent, resolved_by |-> Absent, replies |-> <<>>,
     last_activity_at |-> now, content_snippet |-> snippet, is_stale |-> FALSE]

\* new Set<string>().add(a), kept in insertion order as [...authors] lists it
SetAdd(order, a) == IF \E i \in 1..Len(order) : order[i] = a THEN order ELSE Append(order, a)

RECURSIVE AddReplyAuthors(_, _, _)
AddReplyAuthors(order, replies, i) ==
    IF i > Len(replies) THEN order
    ELSE AddReplyAuthors(SetAdd(order, replies[i].author), replies, i + 1)

RECURSIVE AddAuthors(_, _, _)
AddAuthors(order, comments, i) ==
    IF i > Len(comments) THEN order
    ELSE AddAuthors(AddReplyAuthors(SetAdd(order, comments[i].author),
                                    comments[i].replies, 1),
                    comments, i + 1)

CountStatus(comments, status) ==
    Cardinality({i \in 1..Len(comments) : comments[i].status = status})

\* a mutant of recalculateMetadata: the authors of the replies are left out
RECURSIVE AddCommentAuthors(_, _, _)
AddCommentAuthors(order, comments, i) ==
    IF i > Len(comments) THEN order
    ELSE AddCommentAuthors(SetAdd(order, comments[i].author), comments, i + 1)

recalculateMetadataNoReplies(comments) ==
    [total_comments |-> Len(comments),
     open_count |-> CountStatus(comments, "open"),
     resolved_count |-> CountStatus(comments, "resolved"),
     archived_count |-> CountStatus(comments, "archived"),
     authors |-> AddCommentAuthors(<<>>, comments, 1)]

recalculateMetadata(comments) ==
    [total_comments |-> Len(comments),
     open_count |-> CountStatus(comments, "open"),
     resolved_count |-> CountStatus(comments, "resolved"),
     archived_count |-> CountStatus(comments, "archived"),
     authors |-> AddAuthors(<<>>, comments, 1)]

createEmptyCommentFile(notePath, now) ==
    [exists |-> TRUE, note_path |-> notePath, created_at |-> now, updated_at |-> now,
     comments |-> <<>>, metadata |-> recalculateMetadata(<<>>)]

\* a store as a save of the plugin left it in its file
SavedStore(notePath, comments, now) ==
    [exists |-> TRUE, note_path |-> notePath, created_at |-> now, updated_at |-> now,
     comments |-> comments, metadata |-> recalculateMetadata(comments)]

\* saveComments up to its await: the object as JSON.stringify sees it
saveComments(commentFile, now) ==
    [commentFile EXCEPT !.metadata = recalculateMetadata(commentFile.comments),
                        !.updated_at = now]

\* a mutant of Push: the annotation goes in front
PushFront(comments, comment) == <<comment>> \o comments

\* commentFile.comments.push(comment)
Push(comments, comment) == Append(comments, comment)

\* comments.find((c) => c.id === commentId): the index of the first one, 0 for none
FindComment(comments, commentId) ==
    IF \E i \in 1..Len(comments) : comments[i].id = commentId
    THEN CHOOSE i \in 1..Len(comments) :
             /\ comments[i].id = commentId
             /\ \A j \in 1..(i - 1) : comments[j].id # commentId
    ELSE 0

\* a mutant of ReplyTo: a resolved annotation stays resolved
ReplyToKeepsResolved(comment, reply, now) ==
    [comment EXCEPT !.replies = Append(@, reply),
                    !.updated_at = now,
                    !.last_activity_at = reply.created_at]

\* addReply l.55-62 on the annotation found (a status that is not resolved is kept)
ReplyTo(comment, reply, now) ==
    [comment EXCEPT !.replies = Append(@, reply),
                    !.updated_at = now,
                    !.last_activity_at = reply.created_at,
                    !.status = IF @ = "resolved" THEN "open" ELSE @,
                    !.resolved_at = IF comment.status = "resolved" THEN Absent ELSE @,
                    !.resolved_by = IF comment.status = "resolved" THEN Absent ELSE @]

\* a mutant of Resolve: the resolution counts as activity
ResolveTouchesActivity(comment, resolvedBy, now) ==
    [comment EXCEPT !.status = "resolved",
                    !.resolved_at = Set(now),
                    !.resolved_by = Set(resolvedBy),
                    !.updated_at = now,
                    !.last_activity_at = now]

\* resolveComment l.73-76 on the annotation found
Resolve(comment, resolvedBy, now) ==
    [comment EXCEPT !.status = "resolved",
                    !.resolved_at = Set(now),
                    !.resolved_by = Set(resolvedBy),
                    !.updated_at = now]

----------------------------------------------------------------------------
(* CommentManager.ts and main.ts as interleaved async handlers: a step is   *)
(* the completion of one awaited promise and the code up to the next await *)

MaxObjects == 3
MaxTasks == 2
MaxStarts == 2

ObjIds == 1..MaxObjects
TaskIds == 1..MaxTasks

\* the null of getComments, as an object reference
NoObj == 0

NoTask == [op |-> "none", pc |-> "idle", phase |-> "none", path |-> "", obj |-> NoObj,
           raw |-> NoStore, in |-> <<>>]
NewTask(op, p, in) == [op |-> op, pc |-> "start", phase |-> "main", path |-> p,
                       obj |-> NoObj, raw |-> NoStore, in |-> in]

\* the state a step works on
MS == [heap |-> heap, cacheObj |-> cacheObj, tasks |-> tasks,
       selfSaveCount |-> selfSaveCount, guardTimers |-> guardTimers, last |-> last]

\* the objects a reference still reaches
Reached(s) == {s.cacheObj[p] : p \in Paths} \cup {s.tasks[t].obj : t \in TaskIds}
Collect(s) == [s EXCEPT !.heap = [o \in ObjIds |-> IF o \in Reached(s) THEN @[o] ELSE NoStore]]

\* the handlers in flight, the oldest first
RECURSIVE Pending(_, _)
Pending(ts, t) ==
    IF t > MaxTasks THEN <<>>
    ELSE (IF ts[t].pc = "idle" THEN <<>> ELSE <<ts[t]>>) \o Pending(ts, t + 1)
Compact(s) ==
    [s EXCEPT !.tasks = [t \in TaskIds |-> IF t <= Len(Pending(@, 1)) THEN Pending(@, 1)[t]
                                           ELSE NoTask]]

\* the object a `new` yields: the first one nothing refers to
FreeObjs(s) == ObjIds \ Reached(s)
NewObj(s) == CHOOSE o \in FreeObjs(s) : \A q \in FreeObjs(s) : o <= q

\* what a step did (history); a step of no interest leaves NoHandler.  Next to
\* it the paths are kept whose cache entry invalidateCache deleted and no
\* cache.set has replaced yet
Step(op, p, fields) == [op |-> op, path |-> p, f |-> fields]
Dropped == IF "dropped" \in DOMAIN last THEN last.dropped ELSE {}
Quiet(dropped) == [op |-> "none", path |-> NoPath, f |-> <<>>, dropped |-> dropped]

Finish(s, t) == [s EXCEPT !.tasks[t] = NoTask]

\* the rename handler leaves its try block: finally sets the timeout of its guard
Finally(s, t) ==
    Finish([s EXCEPT !.guardTimers = IF s.tasks[t].op = "rename" THEN @ + 1 ELSE @], t)

\* refreshGutterForFile: getComments, then the dispatch to the views of the file
\* (none is open here); the handler ends with it
EnterRefresh(s, t) ==
    IF s.cacheObj[s.tasks[t].path] # NoObj
    THEN Finally(s, t)
    ELSE [s EXCEPT !.tasks[t].pc = "exists", !.tasks[t].phase = "refresh",
                   !.tasks[t].obj = NoObj, !.tasks[t].raw = NoStore]

\* saveComments l.32-35: metadata and updated_at are set in the object, its JSON
\* is handed to adapter.write
SaveStart(s, t, o, now) ==
    LET stamped == saveComments(s.heap[o], now)
    IN  [s EXCEPT !.heap[o] = stamped,
                  !.tasks[t].pc = "write", !.tasks[t].obj = o, !.tasks[t].raw = stamped]

\* verifyAndRelocateComments and saveTrackedPositions count their own write
GuardedSaveStart(s, t, o, now) ==
    SaveStart([s EXCEPT !.selfSaveCount = @ + 1], t, o, now)

\* getComments has resolved with object o (NoObj for null): the handler runs on
GotMain(s, t, o, how, now) ==
    LET task == s.tasks[t]
        p == task.path
    IN  CASE task.op = "getComments" ->
                 Finish([s EXCEPT !.last = Step("got", p,
                             [obj |-> o, how |-> how, in |-> task.in,
                              value |-> IF o = NoObj THEN NoStore ELSE s.heap[o]])], t)
          [] task.op = "addComment" ->
                 LET o1 == IF o = NoObj THEN NewObj(s) ELSE o
                     commentFile == IF o = NoObj THEN createEmptyCommentFile(p, now)
                                    ELSE s.heap[o]
                     comment == Comment(task.in.id, task.in.author, now, task.in.start_line,
                                        task.in.end_line, task.in.snippet)
                     pushed == [commentFile EXCEPT !.comments = Push(@, comment)]
                 IN  SaveStart([s EXCEPT !.heap[o1] = pushed,
                                         !.last = Step("addComment", p,
                                             [created |-> o = NoObj,
                                              pre |-> commentFile.comments,
                                              comment |-> comment,
                                              post |-> pushed])],
                               t, o1, now)
          [] task.op \in {"addReply", "resolveComment"} ->
                 LET comments == IF o = NoObj THEN <<>> ELSE s.heap[o].comments
                     i == FindComment(comments, task.in.id)
                 IN  IF i = 0
                     THEN EnterRefresh([s EXCEPT !.last = Step(task.op, p,
                                            [found |-> FALSE, pre |-> comments,
                                             post |-> comments, i |-> 0])], t)
                     ELSE LET comment == IF task.op = "addReply"
                                         THEN ReplyTo(comments[i], task.in.reply, now)
                                         ELSE Resolve(comments[i], task.in.by, now)
                              post == [comments EXCEPT ![i] = comment]
                          IN  SaveStart([s EXCEPT !.heap[o].comments = post,
                                                  !.last = Step(task.op, p,
                                                      [found |-> TRUE, pre |-> comments,
                                                       post |-> post, i |-> i,
                                                       in |-> task.in, now |-> now])],
                                        t, o, now)
          [] task.op = "reconcile" ->
                 IF o = NoObj \/ Len(s.heap[o].comments) = 0
                 THEN EnterRefresh([s EXCEPT !.last = Step("verified", p,
                                        [read |-> FALSE])], t)
                 ELSE [s EXCEPT !.tasks[t].pc = "note", !.tasks[t].obj = o,
                                !.last = NoHandler]
          [] task.op = "flush" ->
                 IF o = NoObj
                 THEN Finish([s EXCEPT !.last = Step("tracked", p, [read |-> FALSE])], t)
                 ELSE [s EXCEPT !.tasks[t].pc = "note", !.tasks[t].obj = o,
                                !.last = NoHandler]

\* a mutant of EnterMain: the cache is never consulted
EnterMainNoCache(s, t, now) ==
    [s EXCEPT !.tasks[t].pc = "exists", !.tasks[t].phase = "main", !.last = NoHandler]

\* getComments l.13-17, called by a handler
EnterMain(s, t, now) ==
    IF s.cacheObj[s.tasks[t].path] # NoObj
    THEN GotMain(s, t, s.cacheObj[s.tasks[t].path], "cached", now)
    ELSE [s EXCEPT !.tasks[t].pc = "exists", !.tasks[t].phase = "main",
                   !.last = NoHandler]

\* getComments has resolved, in either phase of a handler
Got(s, t, o, how, now) ==
    IF s.tasks[t].phase = "main"
    THEN GotMain(s, t, o, how, now)
    ELSE Finally([s EXCEPT !.last = NoHandler], t)

\* the result of a step becomes the state; what no reference reaches is dropped,
\* and cache shows the content of the objects CommentManager.cache holds
Apply(s) ==
    \E c \in {Compact(Collect(s))} :
       /\ heap' = c.heap
       /\ cacheObj' = c.cacheObj
       /\ tasks' = c.tasks
       /\ selfSaveCount' = c.selfSaveCount
       /\ guardTimers' = c.guardTimers
       /\ last' = [op |-> c.last.op, path |-> c.last.path,
                   f |-> IF "f" \in DOMAIN c.last THEN c.last.f ELSE <<>>,
                   dropped |-> {p \in Paths : /\ c.cacheObj[p] = NoObj
                                              /\ p \in Dropped \/ cacheObj[p] # NoObj}]
       /\ cache' = [p \in Paths |-> IF c.cacheObj[p] = NoObj THEN NoStore
                                    ELSE c.heap[c.cacheObj[p]]]

IdleTasks == {t \in TaskIds : tasks[t].pc = "idle"}
Running == Cardinality(TaskIds \ IdleTasks)

\* a handler is called: it runs up to its first pending promise
Start(op, p, in) ==
    /\ IdleTasks # {}
    /\ started < MaxStarts
    /\ started' = started + 1
    /\ LET t == CHOOSE i \in IdleTasks : \A j \in IdleTasks : i <= j
       IN  Apply(EnterMain([MS EXCEPT !.tasks[t] = NewTask(op, p, in)], t, clock))
    /\ UNCHANGED <<noteDisk, persisted, edits, activePath, views, clock, events>>

\* the ids of the annotations the program holds anywhere, in any store
IdsIn(commentFile) == {commentFile.comments[i].id : i \in 1..Len(commentFile.comments)}
KnownIds(p) ==
    UNION {IdsIn(persisted[q]) : q \in Paths} \cup UNION {IdsIn(heap[o]) : o \in ObjIds}
    \cup {tasks[t].in.id : t \in {u \in TaskIds : tasks[u].op = "addComment"}}

\* openCommentPopup, exportComments, the sidebar: a bare getComments
CallGetComments(p) ==
    Start("getComments", p, [cached |-> cacheObj[p], dropped |-> p \in Dropped])

\* the submit of addCommentAtCursor; generateId gives an id never given before
SubmitComment(p, author, startLine, endLine) ==
    /\ noteDisk[p].ok
    /\ startLine \in 1..Len(noteDisk[p].lines)
    /\ endLine \in startLine..Len(noteDisk[p].lines)
    /\ CommentIds \ KnownIds(p) # {}
    /\ Start("addComment", p,
             [id |-> CHOOSE i \in CommentIds \ KnownIds(p) :
                         \A j \in CommentIds \ KnownIds(p) : i <= j,
              author |-> author, start_line |-> startLine, end_line |-> endLine,
              snippet |-> captureSnippet(noteDisk[p].lines[startLine])])

\* addReply with any reply; the submit of handleReply passes created_at = now
SubmitReply(p, commentId, author, createdAt) ==
    Start("addReply", p, [id |-> commentId, reply |-> NewReply(author, createdAt)])

\* handleResolve
ClickResolve(p, commentId, resolvedBy) ==
    Start("resolveComment", p, [id |-> commentId, by |-> resolvedBy])

\* the "active-leaf-change" handler, its awaits apart
LeafChange(p) == Start("reconcile", p, <<>>)

\* the debounce timer of the tracker plugin fires with the lines it tracked
FlushTimer(p, lineUpdates) == Start("flush", p, [lineUpdates |-> lineUpdates])

\* adapter.exists(path) resolves
ExistsDone(t) ==
    /\ tasks[t].pc = "exists"
    /\ Apply(IF persisted[tasks[t].path].exists
             THEN [MS EXCEPT !.tasks[t].pc = "read",
                             !.last = NoHandler]
             ELSE Got(MS, t, NoObj, "absent", clock))
    /\ UNCHANGED <<noteDisk, persisted, edits, activePath, views, clock, events, started>>

\* a .comments file whose text JSON.parse rejects; a store always names its note
Malformed == [exists |-> TRUE, note_path |-> "", comments |-> <<>>]
\* adapter.read rejects for a file that is gone, JSON.parse throws for Malformed
Parses(raw) == raw.exists /\ raw # Malformed

\* a mutant of ReadDone: what was read is cached whether it parses or not
ReadDoneCachesAll(t) ==
    /\ tasks[t].pc = "read"
    /\ LET p == tasks[t].path
           o == NewObj(MS)
       IN  Apply(Got([MS EXCEPT !.heap[o] = persisted[p], !.cacheObj[p] = o,
                                !.tasks[t].obj = o,
                                !.last = NoHandler],
                     t, IF Parses(persisted[p]) THEN o ELSE NoObj,
                     IF Parses(persisted[p]) THEN "loaded" ELSE "malformed", clock))
    /\ UNCHANGED <<noteDisk, persisted, edits, activePath, views, clock, events, started>>

\* adapter.read(path) resolves: JSON.parse makes a new object, cache.set keeps
\* it; if JSON.parse throws, the catch returns null
ReadDone(t) ==
    /\ tasks[t].pc = "read"
    /\ LET p == tasks[t].path
           o == NewObj(MS)
       IN  IF Parses(persisted[p])
           THEN Apply(Got([MS EXCEPT !.heap[o] = persisted[p], !.cacheObj[p] = o,
                                     !.tasks[t].obj = o,
                                     !.last = NoHandler],
                          t, o, "loaded", clock))
           ELSE Apply(Got([MS EXCEPT !.last = NoHandler], t, NoObj, "malformed", clock))
    /\ UNCHANGED <<noteDisk, persisted, edits, activePath, views, clock, events, started>>

\* adapter.read(filePath) of the note resolves: the loop runs over the object,
\* a change is saved
NoteDone(t) ==
    /\ tasks[t].pc = "note"
    /\ LET task == tasks[t]
           p == task.path
           o == task.obj
           note == noteDisk[p]
       IN  IF task.op = "reconcile"
           THEN IF ~note.ok \/ EmptyText(note)
                THEN Apply(EnterRefresh([MS EXCEPT !.last = Step("verified", p,
                                             [read |-> FALSE])], t))
                ELSE \E r \in {ReconcileLoop(heap[o].comments, note.lines, 1, FALSE, <<>>)} :
                     \E s \in {[MS EXCEPT !.heap[o].comments = r.comments,
                                          !.last = Step("verified", p,
                                              [read |-> TRUE, changed |-> r.changed,
                                               thrown |-> r.thrown])]} :
                       Apply(IF r.thrown THEN Finish(s, t)
                             ELSE IF r.changed THEN GuardedSaveStart(s, t, o, clock)
                             ELSE EnterRefresh(s, t))
           ELSE \E r \in {saveTrackedPositions(heap[o], task.in.lineUpdates,
                              IF note.ok /\ ~EmptyText(note) THEN note.lines ELSE <<>>)} :
                \E s \in {[MS EXCEPT !.heap[o].comments = r.comments,
                                     !.last = Step("tracked", p,
                                         [read |-> TRUE, changed |-> r.changed])]} :
                  Apply(IF r.changed THEN GuardedSaveStart(s, t, o, clock)
                        ELSE Finish(s, t))
    /\ UNCHANGED <<noteDisk, persisted, edits, activePath, views, clock, events, started>>

\* the write of adapter.write reaches the file commentsPath(note_path); the
\* vault will report it
WriteLands(t) ==
    /\ tasks[t].pc = "write"
    /\ persisted' = [persisted EXCEPT ![tasks[t].raw.note_path] = tasks[t].raw]
    /\ events' = [events EXCEPT ![tasks[t].raw.note_path] = @ + 1]
    /\ Apply([MS EXCEPT !.tasks[t].pc = "written",
                        !.last = NoHandler])
    /\ UNCHANGED <<noteDisk, edits, activePath, views, clock, started>>

\* adapter.write rejects: saveComments throws before cache.set, and so does the
\* handler that awaited it, before its refresh and before the timeout that
\* would release the guard
WriteFails(t) ==
    /\ tasks[t].pc = "write"
    /\ Apply(Finally([MS EXCEPT !.last = Step("failed", tasks[t].path,
                                     [by |-> tasks[t].op, obj |-> tasks[t].obj,
                                      raw |-> tasks[t].raw])], t))
    /\ UNCHANGED <<noteDisk, persisted, edits, activePath, views, clock, events, started>>

\* adapter.write resolves: saveComments l.36 (cache.set under note_path) and
\* what its caller does next; the rename handler wrote without saveComments and
\* invalidates the cache of both paths
WriteDone(t) ==
    /\ tasks[t].pc = "written"
    /\ LET task == tasks[t]
           p == task.raw.note_path
           guarded == task.op \in {"reconcile", "flush"}
           s == IF task.op = "rename"
                THEN [MS EXCEPT !.cacheObj[task.in.old] = NoObj,
                                !.cacheObj[task.path] = NoObj,
                                !.last = Step("renamed", task.path, [old |-> task.in.old,
                                                                     raw |-> task.raw])]
                ELSE [MS EXCEPT !.cacheObj[p] = task.obj,
                                !.guardTimers = IF guarded THEN @ + 1 ELSE @,
                                !.last = Step("saved", p, [by |-> task.op, obj |-> task.obj,
                                                              raw |-> task.raw])]
       IN  Apply(IF task.op = "flush" THEN Finish(s, t) ELSE EnterRefresh(s, t))
    /\ UNCHANGED <<noteDisk, persisted, edits, activePath, views, clock, events, started>>

\* the vault "modify" handler for the .comments file of p
VaultModify(p) ==
    /\ events[p] > 0
    /\ events' = [events EXCEPT ![p] = @ - 1]
    /\ IF selfSaveCount > 0
       THEN Apply([MS EXCEPT !.last = NoHandler])
       ELSE /\ IdleTasks # {}
            /\ LET t == CHOOSE i \in IdleTasks : \A j \in IdleTasks : i <= j
               IN  Apply(EnterRefresh([MS EXCEPT !.cacheObj[p] = NoObj,
                                                 !.tasks[t] = NewTask("modify", p, <<>>),
                                                 !.last = NoHandler],
                                      t))
    /\ UNCHANGED <<noteDisk, persisted, edits, activePath, views, clock, started>>

\* another tool rewrites the .comments file of p: it marks every annotation resolved
OtherToolResolves(p) ==
    /\ edits < MaxEdits
    /\ persisted[p].exists
    /\ edits' = edits + 1
    /\ persisted' = [persisted EXCEPT ![p] =
           saveComments([@ EXCEPT !.comments =
               [i \in 1..Len(@) |-> Resolve(@[i], "bob", clock)]], clock)]
    /\ events' = [events EXCEPT ![p] = @ + 1]
    /\ Apply([MS EXCEPT !.last = NoHandler])
    /\ UNCHANGED <<noteDisk, activePath, views, clock, started>>

\* the user has seen the notice of a failed parse and puts a well-formed store
\* in the place of the malformed file
UserRepairs(p, store) ==
    /\ edits < MaxEdits
    /\ last.op = "got" /\ last.f.how = "malformed"
    /\ ~Parses(persisted[p])
    /\ edits' = edits + 1
    /\ persisted' = [persisted EXCEPT ![p] = store]
    /\ events' = [events EXCEPT ![p] = @ + 1]
    /\ Apply([MS EXCEPT !.last = NoHandler])
    /\ UNCHANGED <<noteDisk, activePath, views, clock, started>>

\* the user renames note old to the free name new: the vault moves the note and
\* calls the "rename" handler, which runs up to adapter.exists
RenameNote(old, new) ==
    /\ edits < MaxEdits
    /\ old # new
    /\ noteDisk[old].ok /\ ~noteDisk[new].ok
    /\ IdleTasks # {}
    /\ edits' = edits + 1
    /\ noteDisk' = [noteDisk EXCEPT ![new] = noteDisk[old], ![old] = Unreadable]
    /\ LET t == CHOOSE i \in IdleTasks : \A j \in IdleTasks : i <= j
       IN  Apply([MS EXCEPT !.tasks[t] = [NewTask("rename", new, [old |-> old])
                                             EXCEPT !.pc = "renameExists"],
                           !.last = NoHandler])
    /\ UNCHANGED <<persisted, activePath, views, clock, events, started>>

\* adapter.exists(oldCommentsPath) resolves: without a store the handler
\* returns, with one it engages the guard and calls adapter.rename
RenameExists(t) ==
    /\ tasks[t].pc = "renameExists"
    /\ Apply(IF persisted[tasks[t].in.old].exists
             THEN [MS EXCEPT !.selfSaveCount = @ + 1, !.tasks[t].pc = "renameStore",
                             !.last = NoHandler]
             ELSE Finish([MS EXCEPT !.last = NoHandler], t))
    /\ UNCHANGED <<noteDisk, persisted, edits, activePath, views, clock, events, started>>

\* adapter.rename resolves: the store file has the new name.  It rejects if the
\* old file is gone; onto an existing file it rejects or replaces the file, as
\* the platform's adapter does
RenameStore(t) ==
    /\ tasks[t].pc = "renameStore"
    /\ LET old == tasks[t].in.old
           new == tasks[t].path
       IN  \E rejects \in IF ~persisted[old].exists THEN {TRUE}
                          ELSE IF persisted[new].exists THEN BOOLEAN ELSE {FALSE} :
               IF rejects
               THEN /\ persisted' = persisted
                    /\ Apply(Finally([MS EXCEPT !.last = NoHandler], t))
               ELSE /\ persisted' = [persisted EXCEPT ![new] = persisted[old],
                                                      ![old] = NoStore]
                    /\ Apply([MS EXCEPT !.tasks[t].pc = "renameRead", !.last = NoHandler])
    /\ UNCHANGED <<noteDisk, edits, activePath, views, clock, events, started>>

\* adapter.read(newCommentsPath) resolves: JSON.parse, note_path is set to the
\* new path and the text is handed to adapter.write; a text that does not parse
\* throws
RenameRead(t) ==
    /\ tasks[t].pc = "renameRead"
    /\ LET new == tasks[t].path
       IN  Apply(IF Parses(persisted[new])
                 THEN [MS EXCEPT !.tasks[t].pc = "write",
                                 !.tasks[t].raw = [persisted[new] EXCEPT !.note_path = new],
                                 !.last = NoHandler]
                 ELSE Finally([MS EXCEPT !.last = NoHandler], t))
    /\ UNCHANGED <<noteDisk, persisted, edits, activePath, views, clock, events, started>>

\* time passes
Tick ==
    /\ clock < MaxClock
    /\ clock' = clock + 1
    /\ last' = Quiet(Dropped)
    /\ UNCHANGED <<noteDisk, persisted, cache, selfSaveCount, guardTimers, edits,
                   activePath, views, heap, cacheObj, tasks, events, started>>

\* the manager before any handler ran
MgrIdle ==
    /\ clock = 0
    /\ heap = [o \in ObjIds |-> NoStore]
    /\ cacheObj = [p \in Paths |-> NoObj]
    /\ tasks = [t \in TaskIds |-> NoTask]
    /\ events = [p \in Paths |-> 0]
    /\ started = 0

----------------------------------------------------------------------------
(* Inputs of the pure functions *)

MaxStrLen == 4
MaxDocLines == 3

Letters == {"a", "b"}
Strings == UNION {[1..n -> Letters] : n \in 0..MaxStrLen}

A3 == Rep("a", 3)
A4S == Rep("a", 4) \o <<SP>>
A5 == Rep("a", 5)
A4B == Rep("a", 4) \o <<"b">>
B2 == Rep("b", 2)
Long51 == Rep("a", 50) \o <<"b">>
Snip50 == Rep("a", 49) \o <<"b">>

MatcherLines == {<<>>, A3, A4S, A5, A4B, Long51}
MatcherSnippets == {<<>>, A3, A5, A4B, Snip50}
MatcherDocs == UNION {[1..n -> MatcherLines] : n \in 1..MaxDocLines}
\* 0-indexed anchor lines: inside the document and up to two lines past its end
MatcherHints == 0..(MaxDocLines + 2)
MatcherRadii == {0, 1, 2, DefaultRadius}

NoArgs == [fn |-> "none"]
NoRet == [kind |-> "pending"]

\* the plugin after onload, no note and no store
SysIdle ==
    /\ noteDisk = [p \in Paths |-> Unreadable]
    /\ persisted = [p \in Paths |-> NoStore]
    /\ cache = [p \in Paths |-> NoStore]
    /\ selfSaveCount = 0
    /\ guardTimers = 0
    /\ edits = 0
    /\ activePath = NoPath
    /\ views = [v \in Views |-> ClosedView]
    /\ last = NoHandler
    /\ MgrIdle
    /\ settings = DefaultSettings
    /\ time = NoTime

----------------------------------------------------------------------------
(* bigramSimilarity applied to every pair of strings *)

InitBigram ==
    /\ args \in [fn : {"bigramSimilarity"}, a : Strings, b : Strings]
    /\ ret = NoRet
    /\ SysIdle

CallBigramSimilarity ==
    /\ args.fn = "bigramSimilarity"
    /\ ret = NoRet
    /\ ret' = [kind |-> "sim", ab |-> bigramSimilarity(args.a, args.b),
                               ba |-> bigramSimilarity(args.b, args.a)]
    /\ UNCHANGED args
    /\ UNCHANGED sysVars

NextBigram == CallBigramSimilarity

SpecBigram == InitBigram /\ [][NextBigram]_vars

----------------------------------------------------------------------------
(* findLineBySnippet applied to every document, snippet, hint and radius *)

InitMatcher ==
    /\ args \in [fn : {"findLineBySnippet"}, docLines : MatcherDocs,
                 snippet : MatcherSnippets, hintLine : MatcherHints,
                 radius : MatcherRadii]
    /\ ret = NoRet
    /\ SysIdle

CallFindLineBySnippet ==
    /\ args.fn = "findLineBySnippet"
    /\ ret = NoRet
    /\ ret' = findLineBySnippet(args.docLines, args.snippet, args.hintLine, args.radius)
    /\ UNCHANGED args
    /\ UNCHANGED sysVars

NextMatcher == CallFindLineBySnippet

SpecMatcher == InitMatcher /\ [][NextMatcher]_vars

----------------------------------------------------------------------------------------------------------------------------------------
(* The reconciler on one note that another tool edits between activations *)

MaxNoteLines == 3

ReconLines == {<<>>, A3, A4S}
ReconNotes == UNION {[1..n -> ReconLines] : n \in 1..MaxNoteLines}
NoteA == "A.md"

\* a store written before snippets existed: one comment without content_snippet
LegacyStores ==
    {CommentFile(NoteA, <<NewComment(1, l, l, Undefined)>>) : l \in 1..MaxNoteLines}

InitNote(stores) ==
    /\ args = NoArgs
    /\ ret = NoRet
    /\ \E lines \in ReconNotes :
           noteDisk = [p \in Paths |-> IF p = NoteA THEN File(lines) ELSE Unreadable]
    /\ \E st \in stores :
           persisted = [p \in Paths |-> IF p = NoteA THEN st ELSE NoStore]
    /\ cache = [p \in Paths |-> NoStore]
    /\ selfSaveCount = 0
    /\ guardTimers = 0
    /\ edits = 0
    /\ activePath = NoteA
    /\ views = [v \in Views |-> ClosedView]
    /\ last = NoHandler
    /\ MgrIdle
    /\ settings = DefaultSettings
    /\ time = NoTime

InitRecon == InitNote({NoStore} \cup LegacyStores)

NextRecon ==
    \/ ActiveLeafChange(NoteA) /\ UNCHANGED <<pureVars, mgrVars, settings, time>>
    \/ GuardExpire /\ UNCHANGED <<pureVars, mgrVars, settings, time>>
    \/ \E s \in 1..MaxNoteLines, e \in 0..1 : AddComment(NoteA, s, s + e) /\ UNCHANGED <<pureVars, mgrVars, settings, time>>
    \/ \E at \in 1..MaxNoteLines : InsertBlankLines(NoteA, 1, at) /\ UNCHANGED <<pureVars, mgrVars, settings, time>>
    \/ \E k \in 1..2, at \in 1..MaxNoteLines : DeleteLines(NoteA, k, at) /\ UNCHANGED <<pureVars, mgrVars, settings, time>>
    \/ \E at \in 1..MaxNoteLines, l \in ReconLines :
           ReplaceLine(NoteA, at, l) /\ UNCHANGED <<pureVars, mgrVars, settings, time>>
    \/ Truncate(NoteA) /\ UNCHANGED <<pureVars, mgrVars, settings, time>>

SpecRecon == InitRecon /\ [][NextRecon]_vars

----------------------------------------------------------------------------
(* The round trip: comments are added, blank lines are inserted above, the  *)
(* note becomes active                                                     *)

InsertCounts == {1, 5, DefaultRadius, DefaultRadius + 1}

InitRoundTrip == InitNote({NoStore})

NextRoundTrip ==
    \/ ActiveLeafChange(NoteA) /\ UNCHANGED <<pureVars, mgrVars, settings, time>>
    \/ \E s \in 1..MaxNoteLines, e \in 0..1 : AddComment(NoteA, s, s + e) /\ UNCHANGED <<pureVars, mgrVars, settings, time>>
    \/ \E k \in InsertCounts, at \in 1..MaxNoteLines :
           InsertBlankLines(NoteA, k, at) /\ UNCHANGED <<pureVars, mgrVars, settings, time>>

SpecRoundTrip == InitRoundTrip /\ [][NextRoundTrip]_vars

----------------------------------------------------------------------------
(* One editing session on note A next to a second note B: edits of the      *)
(* buffer, the debounced flush, activations and the editor's own saves     *)

NoteB == "B.md"
TrackerLines == {<<>>, A3, A4S}
\* the notes the session starts from: two and three lines, a blank line, a repeated line
TrackerNotes == {<<A3, A4S>>, <<B2, <<>>, A3>>, << <<>>, A3, A3>>}

InitTracker ==
    /\ args = NoArgs
    /\ ret = NoRet
    /\ \E lines \in TrackerNotes :
           /\ noteDisk = [p \in Paths |-> IF p = NoteA THEN File(lines) ELSE File(<<A3>>)]
           /\ views = [v \in Views |-> OpenedView(NoteA, lines)]
    /\ persisted = [p \in Paths |-> NoStore]
    /\ cache = [p \in Paths |-> NoStore]
    /\ selfSaveCount = 0
    /\ guardTimers = 0
    /\ edits = 0
    /\ activePath = NoteA
    /\ last = NoHandler
    /\ MgrIdle
    /\ settings = DefaultSettings
    /\ time = NoTime

NextTracker ==
    \/ \E p \in Paths : ActiveLeafChange(p) /\ UNCHANGED <<pureVars, mgrVars, settings, time>>
    \/ ActiveLeafChangeOther /\ UNCHANGED <<pureVars, mgrVars, settings, time>>
    \/ GuardExpire /\ UNCHANGED <<pureVars, mgrVars, settings, time>>
    \/ \E s \in 1..MaxNoteLines, e \in 0..1 : AddComment(NoteA, s, s + e) /\ UNCHANGED <<pureVars, mgrVars, settings, time>>
    \/ \E v \in Views, k \in 1..2, at \in 1..(MaxNoteLines + 2) :
           InsertLines(v, k, at) /\ UNCHANGED <<pureVars, mgrVars, settings, time>>
    \/ \E v \in Views, k \in 1..2, at \in 1..(MaxNoteLines + 2) :
           RemoveLines(v, k, at) /\ UNCHANGED <<pureVars, mgrVars, settings, time>>
    \/ \E v \in Views, at \in 1..(MaxNoteLines + 2), l \in TrackerLines :
           EditLine(v, at, l) /\ UNCHANGED <<pureVars, mgrVars, settings, time>>
    \/ \E v \in Views : SaveNote(v) /\ UNCHANGED <<pureVars, mgrVars, settings, time>>
    \/ \E v \in Views : Flush(v) /\ UNCHANGED <<pureVars, mgrVars, settings, time>>

SpecTracker == InitTracker /\ [][NextTracker]_vars

----------------------------------------------------------------------------
(* Properties of the snippet matcher *)

\* the lines of the call's document inside [hintLine - radius, hintLine + radius]
Window == {i \in 0..(Len(args.docLines) - 1) : Abs(i - args.hintLine) <= args.radius}
ExactLines == {i \in Window : StartsWith(At(args.docLines, i), args.snippet)}
SimOfLine(i) == bigramSimilarity(args.snippet, captureSnippet(At(args.docLines, i)))
FuzzyLines == {i \in Window : RatGE(SimOfLine(i), Threshold)}
Returned == ret # NoRet /\ args.fn = "findLineBySnippet"

\* C7: with a non-empty snippet and an exact match in the window, the result is
\* the closest exact match with confidence 1.0, the line before the hint on a tie.
C7_ClosestExact ==
    (Returned /\ args.snippet # <<>> /\ ExactLines # {}) =>
        /\ ret.kind = "match"
        /\ ret.confidence = One
        /\ ret.line \in ExactLines
        /\ \A j \in ExactLines :
              \/ Abs(ret.line - args.hintLine) < Abs(j - args.hintLine)
              \/ Abs(ret.line - args.hintLine) = Abs(j - args.hintLine) /\ ret.line <= j

\* C8: an empty snippet and a window without exact or fuzzy match give notFound,
\* and a returned line lies in the window and in the document.
C8_NotFoundAndWindow ==
    Returned =>
        /\ args.snippet = <<>> => ret = Null
        /\ (ExactLines = {} /\ FuzzyLines = {}) => ret = Null
        /\ ret.kind = "match" => ret.line \in Window

\* C9: without an exact match in the window the result is the window line of
\* highest similarity >= 0.7 (confidence = that similarity); equal similarities
\* are decided by the smaller distance to the hint.
C9_BestFuzzy ==
    (Returned /\ args.snippet # <<>> /\ ExactLines = {} /\ FuzzyLines # {}) =>
        /\ ret.kind = "match"
        /\ ret.line \in FuzzyLines
        /\ ret.confidence = SimOfLine(ret.line)
        /\ \A j \in FuzzyLines :
              \/ RatGT(SimOfLine(ret.line), SimOfLine(j))
              \/ /\ RatEQ(SimOfLine(ret.line), SimOfLine(j))
                 /\ Abs(ret.line - args.hintLine) <= Abs(j - args.hintLine)

\* the three properties for a hint that is at most one past the last line,
\* where no element outside the array is read
HintReadable == args.hintLine <= Len(args.docLines)
C7_InRange == HintReadable => C7_ClosestExact
C8_InRange == HintReadable => C8_NotFoundAndWindow
C9_InRange == HintReadable => C9_BestFuzzy
NoThrowInRange == (Returned /\ HintReadable) => ret # TypeError

\* C10: bigramSimilarity(a, a) = 1, similarity 0 for different strings one of
\* which is shorter than 2, symmetry, and a value in [0, 1].
C10_BigramLaws ==
    ret.kind = "sim" =>
        /\ args.a = args.b => RatEQ(ret.ab, One)
        /\ (args.a # args.b /\ (Len(args.a) < 2 \/ Len(args.b) < 2)) => RatEQ(ret.ab, Zero)
        /\ RatEQ(ret.ab, ret.ba)
        /\ ret.ab.den > 0 /\ RatGE(ret.ab, Zero) /\ RatGE(One, ret.ab)

C10_Witness ==
    /\ ret.kind = "sim"
    /\ args.a = args.b
    /\ Len(args.a) = 1

----------------------------------------------------------------------------
(* Properties of the reconciler *)

\* the store of the note as getComments returns it after the last handler
Post == IF last.path \in Paths THEN getComments(last.path).comments ELSE <<>>
AfterReconcile == last.op = "reconcile"
OutcomeOf(i) == IF i <= Len(last.outcomes) THEN last.outcomes[i] ELSE "skipped"

\* the pass came right after k blank lines were inserted at or above the
\* anchor of comment i, whose snippet was the capture of its anchored line
InsertedAbove(i) ==
    /\ AfterReconcile
    /\ last.prev.op = "insert"
    /\ i \in 1..Len(last.prev.pre)
    /\ last.prev.k <= DefaultRadius
    /\ last.prev.pre[i].start_line \in 1..Len(last.prev.preLines)
    /\ last.prev.at <= last.prev.pre[i].start_line
    /\ last.prev.pre[i].content_snippet =
           captureSnippet(last.prev.preLines[last.prev.pre[i].start_line])

Shifted(i) ==
    /\ Post[i].is_stale = FALSE
    /\ Post[i].start_line = last.prev.pre[i].start_line + last.prev.k
    /\ Post[i].end_line = last.prev.pre[i].end_line + last.prev.k

UniqueSnippet(i) ==
    /\ last.prev.pre[i].content_snippet # <<>>
    /\ \A l \in 1..Len(last.prev.preLines) :
           StartsWith(last.prev.preLines[l], last.prev.pre[i].content_snippet)
               => l = last.prev.pre[i].start_line
    /\ \A j \in 1..Len(last.prev.pre) :
           last.prev.pre[j].start_line \in 1..Len(last.prev.preLines)

C2_Idempotent ==
    (AfterReconcile /\ last.prev.op = "reconcile") => (last.saves = 0 /\ Post = last.pre)

\* what the matcher returns for comment c on the note of the pass
Matches(c, docLines) ==
    /\ c.start_line - 1 >= 0
    /\ c.start_line - 1 < Len(docLines)
    /\ StartsWith(At(docLines, c.start_line - 1), c.content_snippet)
MatcherResult(c, docLines) ==
    findLineBySnippet(docLines, c.content_snippet, c.start_line - 1, DefaultRadius)

\* C4: after a completed pass over a readable note, an annotation with a
\* non-empty snippet is not stale if its line starts with the snippet or the
\* matcher relocates it, and is stale exactly when the matcher finds nothing.
C4_StaleIffNotFound ==
    (AfterReconcile /\ last.completed /\ noteDisk[NoteA].ok) =>
        \A i \in 1..Len(Post) :
            ~Falsy(last.pre[i].content_snippet) =>
                LET m == Matches(last.pre[i], noteDisk[NoteA].lines)
                    r == MatcherResult(last.pre[i], noteDisk[NoteA].lines)
                IN  /\ (m \/ r.kind = "match") => ~Post[i].is_stale
                    /\ Post[i].is_stale <=> (~m /\ r = Null)

\* C5: a pass calls saveComments once if it changed an annotation and not at
\* all if it changed none.
C5_OneWrite ==
    AfterReconcile => last.saves = (IF Post # last.pre THEN 1 ELSE 0)

\* the two properties where the empty-note return and the thrown pass are set
\* aside: C4 on a note that is not the empty text, and at most one write per
\* pass, which a completed pass that changed the store performs
C4_NonEmptyNote == ~EmptyText(noteDisk[NoteA]) => C4_StaleIffNotFound
C5_AtMostOne ==
    AfterReconcile =>
        /\ last.saves <= 1
        /\ (last.completed /\ Post # last.pre) => last.saves = 1

----------------------------------------------------------------------------
(* Properties of the tracker flush *)

AfterFlush == last.op = "flush"

\* the store of the edited note as getComments returns it after the last handler
SessionPost ==
    IF last.edit.path \in Paths THEN getComments(last.edit.path).comments ELSE <<>>

\* comment i of the store was tracked on its stored line when the buffer was edited
TrackedAtStoredLine(i) ==
    /\ i \in 1..Len(last.edit.pre)
    /\ last.edit.pre[i].id \in DOMAIN last.edit.tracked
    /\ last.edit.tracked[last.edit.pre[i].id] = last.edit.pre[i].start_line

\* whole lines were inserted at or above the line of comment i, removed from
\* above it, or inserted or removed below it
LinesInsertedAbove(i) ==
    last.edit.op = "insertLines" /\ last.edit.at <= last.edit.pre[i].start_line
LinesRemovedAbove(i) ==
    last.edit.op = "removeLines" /\ last.edit.at + last.edit.k - 1 < last.edit.pre[i].start_line
LinesChangedBelow(i) ==
    last.edit.op \in {"insertLines", "removeLines"} /\ last.edit.at > last.edit.pre[i].start_line

StoredShift(i, delta) ==
    /\ i <= Len(SessionPost)
    /\ SessionPost[i].start_line = last.edit.pre[i].start_line + delta
    /\ SessionPost[i].end_line = last.edit.pre[i].end_line + delta

\* C3: after the flush that follows the insertion (removal) of k whole lines
\* above a tracked annotation, the stored startLine and endLine are the original
\* ones plus (minus) k; an edit below the annotation leaves them unchanged.
C3_FlushShift ==
    AfterFlush =>
        \A i \in 1..Len(last.edit.pre) : TrackedAtStoredLine(i) =>
            /\ LinesInsertedAbove(i) => StoredShift(i, last.edit.k)
            /\ LinesRemovedAbove(i) => StoredShift(i, 0 - last.edit.k)
            /\ LinesChangedBelow(i) => StoredShift(i, 0)

\* the same for a flush that is the first handler after the edit
C3_Undisturbed == (last.prev.op \in BufferEdits) => C3_FlushShift

\* the ids of a sequence of comments, in order
IdsOf(comments) == [i \in 1..Len(comments) |-> comments[i].id]

\* C6: a reconciler pass and a tracker flush keep the ids of the store they
\* work on, and an annotation the matcher did not find keeps its lines and its
\* snippet and is stale.
C6_NeverDropped ==
    (last.op \in {"reconcile", "flush"}) =>
        /\ IdsOf(Post) = IdsOf(last.pre)
        /\ \A i \in 1..Len(last.pre) :
               OutcomeOf(i) = "notFound" =>
                   Post[i] = [last.pre[i] EXCEPT !.is_stale = TRUE]

\* a pass marked an annotation stale that was not stale, in a store of two
C6_Witness ==
    /\ AfterReconcile
    /\ Len(last.pre) = 2
    /\ \E i \in 1..Len(last.pre) :
           /\ OutcomeOf(i) = "notFound"
           /\ ~last.pre[i].is_stale
           /\ Post[i].is_stale

\* a flush moved an annotation of the store
C6_FlushWitness ==
    /\ AfterFlush
    /\ \E i \in 1..Len(last.pre) : OutcomeOf(i) = "moved"

----------------------------------------------------------------------------
(* captureSnippet applied to short lines and to lines around 50 characters *)

CaptureShort == UNION {[1..n -> {"a", SP}] : n \in 0..MaxStrLen}
CaptureLong ==
    {Rep("a", n) \o Rep(SP, m) \o Rep("a", j) :
        n \in (SnippetLen - 4)..(SnippetLen + 1), m \in 0..3, j \in 0..1}

InitCapture ==
    /\ args \in [fn : {"captureSnippet"}, line : CaptureShort \cup CaptureLong]
    /\ ret = NoRet
    /\ SysIdle

CallCaptureSnippet ==
    /\ args.fn = "captureSnippet"
    /\ ret = NoRet
    /\ ret' = [kind |-> "snippet", value |-> captureSnippet(args.line),
               again |-> captureSnippet(captureSnippet(args.line))]
    /\ UNCHANGED args
    /\ UNCHANGED sysVars

NextCapture == CallCaptureSnippet

SpecCapture == InitCapture /\ [][NextCapture]_vars

\* C11: the snippet of a line has at most 50 characters and no trailing
\* whitespace, the line starts with it, and capturing it again returns it.
C11_CaptureLaws ==
    ret.kind = "snippet" =>
        /\ Len(ret.value) <= SnippetLen
        /\ ret.value # <<>> => ret.value[Len(ret.value)] # SP
        /\ StartsWith(args.line, ret.value)
        /\ \A i \in (Len(ret.value) + 1)..Min(Len(args.line), SnippetLen) :
               args.line[i] = SP
        /\ ret.again = ret.value

\* a line longer than 50 characters whose 50th character is a blank
C11_Witness ==
    /\ ret.kind = "snippet"
    /\ Len(args.line) > SnippetLen
    /\ args.line[SnippetLen] = SP
    /\ Len(ret.value) < SnippetLen
    /\ ret.value # <<>>

----------------------------------------------------------------------------
(* The annotation store of note A under interleaved handlers: user actions, *)
(* activations, flushes and the writes of another tool                      *)

\* the note: the first line repeats further down
ManagerNote == <<A3, B2, A3>>

\* the stores found at startup: none, an open annotation of line 1 recorded on
\* line 2, a resolved one recorded on line 1
SeedComment(line, status) ==
    [Comment(1, "alice", 0, line, line, A3) EXCEPT
        !.status = status,
        !.resolved_at = IF status = "resolved" THEN Set(0) ELSE Absent,
        !.resolved_by = IF status = "resolved" THEN Set("alice") ELSE Absent]
SeedStores ==
    {NoStore, SavedStore(NoteA, <<SeedComment(2, "open")>>, 0),
     SavedStore(NoteA, <<SeedComment(1, "resolved")>>, 0)}

InitManager ==
    /\ args = NoArgs
    /\ ret = NoRet
    /\ noteDisk = [p \in Paths |-> IF p = NoteA THEN File(ManagerNote) ELSE Unreadable]
    /\ \E st \in SeedStores :
           persisted = [p \in Paths |-> IF p = NoteA THEN st ELSE NoStore]
    /\ cache = [p \in Paths |-> NoStore]
    /\ selfSaveCount = 0
    /\ guardTimers = 0
    /\ edits = 0
    /\ activePath = NoteA
    /\ views = [v \in Views |-> ClosedView]
    /\ last = NoHandler
    /\ MgrIdle
    /\ settings = DefaultSettings
    /\ time = NoTime

NextManager ==
    \/ CallGetComments(NoteA) /\ UNCHANGED <<pureVars, settings, time>>
    \/ SubmitComment(NoteA, DefaultAuthor, 2, 2) /\ UNCHANGED <<pureVars, settings, time>>
    \/ \E author \in Authors, createdAt \in Times :
           SubmitReply(NoteA, 1, author, createdAt) /\ UNCHANGED <<pureVars, settings, time>>
    \/ \E id \in CommentIds :
           ClickResolve(NoteA, id, DefaultAuthor) /\ UNCHANGED <<pureVars, settings, time>>
    \/ LeafChange(NoteA) /\ UNCHANGED <<pureVars, settings, time>>
    \/ \E line \in 1..2 :
           FlushTimer(NoteA, [i \in {1} |-> line]) /\ UNCHANGED <<pureVars, settings, time>>
    \/ \E t \in TaskIds : ExistsDone(t) /\ UNCHANGED <<pureVars, settings, time>>
    \/ \E t \in TaskIds : ReadDone(t) /\ UNCHANGED <<pureVars, settings, time>>
    \/ \E t \in TaskIds : NoteDone(t) /\ UNCHANGED <<pureVars, settings, time>>
    \/ \E t \in TaskIds : WriteLands(t) /\ UNCHANGED <<pureVars, settings, time>>
    \/ \E t \in TaskIds : WriteDone(t) /\ UNCHANGED <<pureVars, settings, time>>
    \/ VaultModify(NoteA) /\ UNCHANGED <<pureVars, settings, time>>
    \/ OtherToolResolves(NoteA) /\ UNCHANGED <<pureVars, settings, time>>
    \/ GuardExpire /\ UNCHANGED <<pureVars, mgrVars, settings, time>>
    \/ Tick /\ UNCHANGED <<pureVars, settings, time>>

SpecManager == InitManager /\ [][NextManager]_vars

----------------------------------------------------------------------------
(* Properties of the annotation store *)

\* the step just taken completed a saveComments
AfterSave == last.op = "saved"

\* C12: after every completed saveComments for a document, the cache entry of the
\* document and its persisted representation hold the same content (comments,
\* metadata, updated_at), whatever handlers are interleaved with the save; the
\* writes of other tools are left out
C12_CacheIsPersisted ==
    (AfterSave /\ edits = 0) => cache[last.path] = persisted[last.path]

\* a bare getComments has just resolved
AfterGet == last.op = "got"

\* C13: getComments returns the cached store when one is cached, the very object
\* the cache holds; otherwise it loads the persisted store, caches the object and
\* returns it, or returns null when no persisted store exists; a call that finds
\* the entry deleted by invalidateCache returns what is persisted when it reads
C13_GetComments ==
    AfterGet =>
        LET p == last.path
            r == last.f
        IN  /\ r.how \in {"cached", "loaded", "absent"}
            /\ r.in.cached # NoObj =>
                   /\ r.how = "cached"
                   /\ r.obj = r.in.cached
                   /\ cacheObj[p] = r.obj
                   /\ r.value = cache[p]
            /\ r.in.cached = NoObj => r.how # "cached"
            /\ r.how = "loaded" =>
                   /\ r.obj # NoObj
                   /\ cacheObj[p] = r.obj
                   /\ r.value = persisted[p]
                   /\ persisted[p].exists
            /\ r.how = "absent" =>
                   /\ r.obj = NoObj
                   /\ ~persisted[p].exists
            /\ r.in.dropped => r.how = "loaded" /\ r.value = persisted[p]

\* a store was cached, another tool rewrote its file, the modify handler deleted
\* the entry, and the getComments called next returned the rewritten store
C13_Witness ==
    /\ AfterGet
    /\ last.f.in.dropped
    /\ last.f.how = "loaded"
    /\ edits > 0
    /\ last.f.value = persisted[last.path]
    /\ \E i \in 1..Len(last.f.value.comments) :
           last.f.value.comments[i].resolved_by = Set("bob")

\* a hit: the call returned the object the cache held
C13_HitWitness == AfterGet /\ last.f.how = "cached" /\ last.f.obj = cacheObj[last.path]

\* the authors of the comments of a store and of their replies
AuthorSet(comments) ==
    {comments[i].author : i \in 1..Len(comments)}
    \cup UNION {{comments[i].replies[j].author : j \in 1..Len(comments[i].replies)} :
                   i \in 1..Len(comments)}
NoDuplicates(seq) == \A i, j \in 1..Len(seq) : seq[i] = seq[j] => i = j
WithStatus(comments, status) == {i \in 1..Len(comments) : comments[i].status = status}

MetadataOf(store) ==
    /\ store.metadata.total_comments = Len(store.comments)
    /\ store.metadata.open_count = Cardinality(WithStatus(store.comments, "open"))
    /\ store.metadata.resolved_count = Cardinality(WithStatus(store.comments, "resolved"))
    /\ store.metadata.archived_count = Cardinality(WithStatus(store.comments, "archived"))
    /\ NoDuplicates(store.metadata.authors)
    /\ {store.metadata.authors[i] : i \in 1..Len(store.metadata.authors)}
           = AuthorSet(store.comments)

\* C14: in every persisted store, and in every store a save is writing, metadata
\* is the function of comments: the total, the count of each status, and the
\* duplicate-free authors of the comments and their replies
C14_Metadata ==
    /\ \A p \in Paths : persisted[p].exists => MetadataOf(persisted[p])
    /\ \A t \in TaskIds : tasks[t].pc \in {"write", "written"} => MetadataOf(tasks[t].raw)

\* a save has written a store in which somebody who wrote no annotation has
\* replied to one, and its metadata lists two authors
C14_Witness ==
    /\ AfterSave
    /\ persisted[last.path] = last.f.raw
    /\ Len(persisted[last.path].metadata.authors) = 2
    /\ \E i \in 1..Len(persisted[last.path].comments) :
       \E j \in 1..Len(persisted[last.path].comments[i].replies) :
           \A k \in 1..Len(persisted[last.path].comments) :
               persisted[last.path].comments[k].author
                   # persisted[last.path].comments[i].replies[j].author

\* the step just taken ran addReply, resolveComment or addComment on a store,
\* up to the write of its saveComments
AfterReply == last.op = "addReply" /\ last.f.found
AfterResolve == last.op = "resolveComment" /\ last.f.found
AfterAdd == last.op = "addComment"
\* the JSON of comments is being written for a handler op
Writing(op, comments) ==
    \E t \in TaskIds : /\ tasks[t].op = op
                       /\ tasks[t].pc = "write"
                       /\ tasks[t].raw.comments = comments
                       /\ tasks[t].raw.note_path = last.path

\* C15: addReply appends the reply as the last one and sets last_activity_at to
\* its created_at; a resolved annotation becomes open and loses resolved_at and
\* resolved_by, an open one stays open
C15_ReplyReopens ==
    AfterReply =>
        LET before == last.f.pre[last.f.i]
            after == last.f.post[last.f.i]
            reply == last.f.in.reply
        IN  /\ after.replies = Append(before.replies, reply)
            /\ after.last_activity_at = reply.created_at
            /\ before.status = "resolved" =>
                   /\ after.status = "open"
                   /\ after.resolved_at = Absent
                   /\ after.resolved_by = Absent
            /\ before.status = "open" => after.status = "open"
            /\ Writing("addReply", last.f.post)

\* a resolved annotation gets a reply
C15_Witness ==
    /\ AfterReply
    /\ last.f.pre[last.f.i].status = "resolved"
    /\ last.f.pre[last.f.i].resolved_at # Absent
    /\ last.f.post[last.f.i].status = "open"

LatestActivity(c) ==
    IF Len(c.replies) = 0 THEN c.created_at
    ELSE Max(c.created_at, c.replies[Len(c.replies)].created_at)

\* C16: over addReply and resolveComment, last_activity_at never decreases and
\* is the later of created_at and the created_at of the latest reply, whatever
\* created_at a reply carries
C16_ActivityMonotone ==
    (AfterReply \/ AfterResolve) =>
        LET before == last.f.pre[last.f.i]
            after == last.f.post[last.f.i]
        IN  /\ after.last_activity_at >= before.last_activity_at
            /\ after.last_activity_at = LatestActivity(after)

\* the replies of c came in the order of their created_at, none before c was made
InOrder(c) ==
    \A j \in 1..Len(c.replies) :
        c.replies[j].created_at >= (IF j = 1 THEN c.created_at
                                    ELSE c.replies[j - 1].created_at)

\* what holds of C16: as long as no reply is older than the activity before it
C16_InOrder ==
    (AfterReply \/ AfterResolve) =>
        LET before == last.f.pre[last.f.i]
            after == last.f.post[last.f.i]
        IN  InOrder(after) =>
                /\ after.last_activity_at >= before.last_activity_at
                /\ after.last_activity_at = LatestActivity(after)

\* C17: resolveComment sets status, resolved_at = the time of the call,
\* resolved_by = the user and updated_at = resolved_at; the activity time, the
\* anchor, the snippet, the stale flag, the replies and the other annotations
\* stay as they were
C17_ResolveFrame ==
    AfterResolve =>
        LET before == last.f.pre[last.f.i]
            after == last.f.post[last.f.i]
        IN  /\ after.status = "resolved"
            /\ after.resolved_at = Set(last.f.now)
            /\ after.resolved_by = Set(last.f.in.by)
            /\ Set(after.updated_at) = after.resolved_at
            /\ after.last_activity_at = before.last_activity_at
            /\ after.start_line = before.start_line
            /\ after.end_line = before.end_line
            /\ after.content_snippet = before.content_snippet
            /\ after.is_stale = before.is_stale
            /\ after.replies = before.replies
            /\ after.id = before.id
            /\ after.author = before.author
            /\ after.created_at = before.created_at
            /\ Len(last.f.post) = Len(last.f.pre)
            /\ \A j \in 1..Len(last.f.pre) : j # last.f.i => last.f.post[j] = last.f.pre[j]
            /\ Writing("resolveComment", last.f.post)

\* an open annotation is resolved later than its last activity, next to another one
C17_Witness ==
    /\ AfterResolve
    /\ Len(last.f.pre) = 2
    /\ last.f.pre[last.f.i].status = "open"
    /\ last.f.now > last.f.pre[last.f.i].last_activity_at

\* C18: addComment on a document without persisted store creates a store of
\* that document whose comments are the new annotation alone; on a document
\* with a store it appends the annotation after the existing ones, which stay
\* as they were and in order
C18_AddComment ==
    AfterAdd =>
        LET p == last.path
            store == last.f.post
        IN  /\ store.note_path = p
            /\ ~persisted[p].exists =>
                   /\ last.f.created
                   /\ store.comments = <<last.f.comment>>
            /\ persisted[p].exists =>
                   /\ ~last.f.created
                   /\ store.comments = Append(last.f.pre, last.f.comment)
            /\ Writing("addComment", store.comments)

\* an annotation is appended to a store that held one
C18_Witness == AfterAdd /\ ~last.f.created /\ Len(last.f.pre) = 1 /\ Len(last.f.post.comments) = 2
\* the first annotation of a document creates its store
C18_CreateWitness == AfterAdd /\ last.f.created /\ ~persisted[last.path].exists

----------------------------------------------------------------------------
(* The gutter of note A: the line map refreshGutterForFile dispatches and   *)
(* the one commentLineField keeps under edits of the buffer                 *)

GutterNote == <<A3, B2, A3>>
\* a snippet no line of the note resembles
Gone == Rep("c", 3)

\* an annotation found in the store: recorded on a line of the note with that
\* line's snippet, or drifted (stale, its text gone), possibly from a line the
\* note no longer has
GutterComment(id, line, status, stale) ==
    [NewComment(id, line, line,
                IF stale THEN Gone ELSE captureSnippet(GutterNote[line])) EXCEPT
        !.status = status, !.is_stale = stale]
GutterStores ==
    {NoStore}
    \cup {CommentFile(NoteA, <<c1>>) :
             c1 \in {GutterComment(1, l, s, FALSE) : l \in 1..2, s \in Statuses}}
    \cup {CommentFile(NoteA, <<c1, c2>>) :
             c1 \in {GutterComment(1, l, s, FALSE) : l \in 1..2, s \in Statuses},
             c2 \in {GutterComment(2, l, s, FALSE) : l \in 2..3, s \in Statuses}
                    \cup {GutterComment(2, l, s, TRUE) : l \in {2, 5}, s \in Statuses}}

\* the settings tab: the user flips a toggle; onChange assigns the setting,
\* saves the settings and refreshActiveGutter rebuilds the gutter of the active
\* note without reconciling it
refreshActiveGutter(st) ==
    IF activePath = NoPath
    THEN UNCHANGED <<cache, views>>
    ELSE LET commentFile == getComments(activePath)
         IN  /\ cache' = [cache EXCEPT ![activePath] = commentFile]
             /\ views' = refreshGutter(st, activePath, commentFile, views)
ToggleShowGutter ==
    /\ settings' = [settings EXCEPT !.showGutterIndicators = ~@]
    /\ refreshActiveGutter(settings')
    /\ last' = Did("toggle")
    /\ UNCHANGED <<noteDisk, persisted, selfSaveCount, guardTimers, edits, activePath>>
ToggleHideResolved ==
    /\ settings' = [settings EXCEPT !.hideResolvedByDefault = ~@]
    /\ refreshActiveGutter(settings')
    /\ last' = Did("toggle")
    /\ UNCHANGED <<noteDisk, persisted, selfSaveCount, guardTimers, edits, activePath>>

InitGutter ==
    /\ args = NoArgs
    /\ ret = NoRet
    /\ noteDisk = [p \in Paths |-> IF p = NoteA THEN File(GutterNote) ELSE Unreadable]
    /\ \E st \in GutterStores :
           persisted = [p \in Paths |-> IF p = NoteA THEN st ELSE NoStore]
    /\ cache = [p \in Paths |-> NoStore]
    /\ selfSaveCount = 0
    /\ guardTimers = 0
    /\ edits = 0
    /\ activePath = NoteA
    /\ views = [v \in Views |-> OpenedView(NoteA, GutterNote)]
    /\ last = NoHandler
    /\ MgrIdle
    /\ settings \in AllSettings
    /\ time = NoTime

NextGutter ==
    \/ ActiveLeafChange(NoteA) /\ UNCHANGED <<pureVars, mgrVars, settings, time>>
    \/ \E s \in 1..MaxNoteLines : AddComment(NoteA, s, s) /\ UNCHANGED <<pureVars, mgrVars, settings, time>>
    \/ \E v \in Views, k \in 1..2, at \in 1..MaxNoteLines :
           InsertLines(v, k, at) /\ UNCHANGED <<pureVars, mgrVars, settings, time>>
    \/ \E v \in Views, k \in 1..2, at \in 1..MaxNoteLines :
           RemoveLines(v, k, at) /\ UNCHANGED <<pureVars, mgrVars, settings, time>>
    \/ \E v \in Views, at \in 1..MaxNoteLines, l \in TrackerLines :
           EditLine(v, at, l) /\ UNCHANGED <<pureVars, mgrVars, settings, time>>
    \/ ToggleShowGutter /\ UNCHANGED <<pureVars, mgrVars, time>>
    \/ ToggleHideResolved /\ UNCHANGED <<pureVars, mgrVars, time>>

SpecGutter == InitGutter /\ [][NextGutter]_vars

\* the sum of the counts of the buckets of the lines in `lines`
RECURSIVE TotalCount(_, _)
TotalCount(map, lines) ==
    IF lines = {} THEN 0
    ELSE LET l == CHOOSE x \in lines : TRUE
         IN  map[l].count + TotalCount(map, lines \ {l})

\* the annotations that pass the hide-resolved filter, and those of them on line L
VisibleIn(comments) ==
    {i \in 1..Len(comments) :
        ~(settings.hideResolvedByDefault /\ comments[i].status = "resolved")}
AtLine(comments, L) == {i \in VisibleIn(comments) : comments[i].start_line = L}

\* lineMap is the aggregate of the visible annotations of comments
AggregateOf(lineMap, comments) ==
    /\ \A L \in DOMAIN lineMap \cup {comments[i].start_line : i \in 1..Len(comments)} :
           IF AtLine(comments, L) = {} THEN L \notin DOMAIN lineMap
           ELSE /\ L \in DOMAIN lineMap
                /\ lineMap[L].count = Cardinality(AtLine(comments, L))
                /\ lineMap[L].hasStale = (\E i \in AtLine(comments, L) : comments[i].is_stale)
                /\ lineMap[L].allResolved =
                       (\A i \in AtLine(comments, L) : comments[i].status = "resolved")
    /\ TotalCount(lineMap, DOMAIN lineMap) = Cardinality(VisibleIn(comments))

\* a handler has just run refreshGutterForFile for note A
AfterRefresh ==
    \/ last.op = "reconcile" /\ last.path = NoteA /\ last.completed
    \/ last.op \in {"add", "toggle"}

\* C19: when refreshGutterForFile builds the line map from the store of a note
\* (there is a store and gutter indicators are shown), every line has a bucket
\* exactly if a visible annotation, one that passes the hide-resolved filter,
\* starts on it; the bucket's count is the number of these annotations, hasStale
\* the OR of their stale flags, allResolved the AND of "status is resolved";
\* the counts sum to the number of visible annotations
C19_LineAggregate ==
    \A v \in Views :
        (/\ AfterRefresh
         /\ views[v].open /\ views[v].path = NoteA
         /\ getComments(NoteA).exists
         /\ settings.showGutterIndicators)
        => AggregateOf(views[v].lineMap, getComments(NoteA).comments)

\* the filter hides a resolved annotation of a line while another line has a bucket
C19_Witness ==
    \E v \in Views :
        /\ AfterRefresh
        /\ views[v].open /\ views[v].path = NoteA
        /\ settings.showGutterIndicators /\ settings.hideResolvedByDefault
        /\ LET comments == getComments(NoteA).comments
           IN  /\ Len(comments) = 2
               /\ comments[1].status = "resolved"
               /\ comments[2].status = "open"
               /\ comments[1].start_line # comments[2].start_line
               /\ DOMAIN views[v].lineMap = {comments[2].start_line}

\* two annotations share a line: one open and stale, one resolved
C19_SharedLineWitness ==
    \E v \in Views, L \in 1..MaxNoteLines :
        /\ AfterRefresh
        /\ views[v].open /\ views[v].path = NoteA
        /\ L \in DOMAIN views[v].lineMap
        /\ views[v].lineMap[L] = Bucket(2, TRUE, FALSE)

\* the line of the document after an edit on which line L of the document
\* before it begins: k lines inserted at line `at`, or k lines removed from it
NewLine(L, op, k, at, doc) ==
    IF op = "insertLines" THEN (IF L < at THEN L ELSE L + k)
    ELSE IF op = "removeLines"
    THEN (IF L < at THEN L
          ELSE IF L < at + k THEN (IF at + k <= Len(doc) THEN at ELSE at - 1)
          ELSE L - k)
    ELSE L

\* the buckets of the lines in `lines` taken together
MergedAll(map, lines) ==
    Bucket(TotalCount(map, lines),
           \E l \in lines : map[l].hasStale,
           \A l \in lines : map[l].allResolved)

\* new is prev with the buckets of `moved` carried to their new lines and
\* merged where they meet, and has no other bucket
Remapped(prev, new, moved, op, k, at, doc) ==
    /\ \A L \in DOMAIN new \cup {NewLine(M, op, k, at, doc) : M \in moved} :
           LET from == {M \in moved : NewLine(M, op, k, at, doc) = L}
           IN  /\ from # {}
               /\ L \in DOMAIN new
               /\ new[L] = MergedAll(prev, from)
    /\ TotalCount(new, DOMAIN new) = TotalCount(prev, moved)

\* C20 as stated: an edit of the buffer carries every bucket to its new line,
\* buckets that meet on a line are merged (count summed, hasStale ORed,
\* allResolved ANDed), and the counts of all buckets sum to the same before and after
C20_RemapKeepsTotal ==
    [][\A v \in Views :
           edits' # edits
           => Remapped(views[v].lineMap, views'[v].lineMap, DOMAIN views[v].lineMap,
                       last'.op, last'.k, last'.at, views[v].doc)]_vars

\* C20: an edit of the buffer carries every bucket whose line is a line of the
\* document before the edit to its new line, buckets that meet on a line are
\* merged (count summed, hasStale ORed, allResolved ANDed, none overwrites
\* another), and the counts of these buckets sum to the same before and after;
\* a bucket of a line the document did not have is dropped
C20_RemapMerges ==
    [][\A v \in Views :
           edits' # edits
           => Remapped(views[v].lineMap, views'[v].lineMap,
                       DOMAIN views[v].lineMap \cap 1..Len(views[v].doc),
                       last'.op, last'.k, last'.at, views[v].doc)]_vars

\* lines were removed and two buckets met: the store still has its two
\* annotations on different lines, one of them stale, and one bucket counts both
C20_Witness ==
    \E v \in Views, L \in 1..MaxNoteLines :
        /\ last.op = "removeLines"
        /\ LET comments == getComments(NoteA).comments
           IN  /\ Len(comments) = 2
               /\ comments[1].start_line # comments[2].start_line
        /\ L \in DOMAIN views[v].lineMap
        /\ views[v].lineMap[L].count = 2
        /\ views[v].lineMap[L].hasStale

----------------------------------------------------------------------------
(* One editor session on note A with a clock: the debounce timer of the     *)
(* tracker plugin, the timeout that releases the self-save guard, and the   *)
(* "modify" notification of the store file                                  *)

MaxNow == 6

\* a timeout of setTimeout: the handle it returned and the time it is due
Timer(n, due) == [n |-> n, due |-> due]

\* a mutant of scheduleSave: the timer that is pending is not cleared
scheduleSaveNoClear(t, v, n) ==
    [t EXCEPT !.pending[v] = @ \cup {Timer(n, t.now + Debounce)},
              !.handle[v] = n]

\* scheduleSave: clearTimeout(this.timer), then this.timer = setTimeout(.., 2000)
scheduleSave(t, v, n) ==
    [t EXCEPT !.pending[v] = {x \in @ : x.n # t.handle[v]}
                                 \cup {Timer(n, t.now + Debounce)},
              !.handle[v] = n]

\* the plugin's update for a transaction that changed the document
PluginUpdate(v) ==
    time' = [scheduleSave(time, v, edits + 1) EXCEPT !.lastEdit[v] = time.now]

\* after `await saveComments` of a guarded write: setTimeout(.., 500) will
\* release the guard; the write makes the vault report a change of the store file
Guarded(t, saved) ==
    IF saved
    THEN [t EXCEPT !.guards = @ \cup {t.now + GuardHold}, !.lastWrite = t.now,
                   !.notice = TRUE]
    ELSE t

\* the leaf of note A is activated
TimedLeafChange ==
    /\ ActiveLeafChange(NoteA)
    /\ time' = Guarded(time, selfSaveCount' > selfSaveCount)

\* a debounce timer of view v is due and fires: savePositions runs
TimerFires(v) ==
    \E tm \in time.pending[v] :
        /\ time.now >= tm.due
        /\ Flush(v)
        /\ time' = [Guarded(time, selfSaveCount' > selfSaveCount) EXCEPT
                       !.pending[v] = @ \ {tm}, !.fired[v] = @ + 1]

\* the timeout of a guarded write is due and fires
GuardReleased ==
    \E g \in time.guards :
        /\ time.now >= g
        /\ GuardExpire
        /\ time' = [time EXCEPT !.guards = @ \ {g}]

\* the vault reports the change of the store file of note p
ModifyNotice(p) ==
    /\ time.notice
    /\ time' = [time EXCEPT !.notice = FALSE]
    /\ IF selfSaveCount > 0
       THEN /\ last' = Did("modifyIgnored")
            /\ UNCHANGED <<cache, views>>
       ELSE /\ cache' = [cache EXCEPT ![p] = persisted[p]]
            /\ views' = refreshGutterForFile(p, persisted[p], views)
            /\ last' = Did("modify")
    /\ UNCHANGED <<noteDisk, persisted, selfSaveCount, guardTimers, edits, activePath>>

\* a mutant of Destroy: the timer is left pending
DestroyKeepsTimer(v) ==
    /\ views[v].open
    /\ views' = [views EXCEPT ![v] = ClosedView]
    /\ time' = time
    /\ last' = Did("destroy")
    /\ UNCHANGED <<noteDisk, persisted, cache, selfSaveCount, guardTimers, edits,
                   activePath>>

\* the editor view is closed: destroy of the plugin value clears its timer
Destroy(v) ==
    /\ views[v].open
    /\ views' = [views EXCEPT ![v] = ClosedView]
    /\ time' = [time EXCEPT !.pending[v] = {x \in @ : x.n # time.handle[v]}]
    /\ last' = Did("destroy")
    /\ UNCHANGED <<noteDisk, persisted, cache, selfSaveCount, guardTimers, edits,
                   activePath>>

\* UnitMs milliseconds pass
Pass ==
    /\ time.now < MaxNow
    /\ time' = [time EXCEPT !.now = @ + 1]
    /\ UNCHANGED <<noteDisk, persisted, cache, selfSaveCount, guardTimers, edits,
                   activePath, views, last>>

SessionNote == <<A3, B2>>
SessionStores ==
    {CommentFile(NoteA, <<NewComment(1, l, l, captureSnippet(SessionNote[l]))>>) :
         l \in 1..2}

InitSession ==
    /\ args = NoArgs
    /\ ret = NoRet
    /\ noteDisk = [p \in Paths |-> IF p = NoteA THEN File(SessionNote) ELSE Unreadable]
    /\ \E st \in SessionStores :
           persisted = [p \in Paths |-> IF p = NoteA THEN st ELSE NoStore]
    /\ cache = [p \in Paths |-> NoStore]
    /\ selfSaveCount = 0
    /\ guardTimers = 0
    /\ edits = 0
    /\ activePath = NoteA
    /\ views = [v \in Views |-> OpenedView(NoteA, SessionNote)]
    /\ last = NoHandler
    /\ MgrIdle
    /\ settings = DefaultSettings
    /\ time = [NoTime EXCEPT !.clocked = TRUE]

NextSession ==
    \/ TimedLeafChange /\ UNCHANGED <<pureVars, mgrVars, settings>>
    \/ \E v \in Views :
           InsertLines(v, 1, 1) /\ PluginUpdate(v) /\ UNCHANGED <<pureVars, mgrVars, settings>>
    \/ \E v \in Views :
           RemoveLines(v, 1, 1) /\ PluginUpdate(v) /\ UNCHANGED <<pureVars, mgrVars, settings>>
    \/ \E v \in Views : SaveNote(v) /\ UNCHANGED <<pureVars, mgrVars, settings, time>>
    \/ \E v \in Views : TimerFires(v) /\ UNCHANGED <<pureVars, mgrVars, settings>>
    \/ GuardReleased /\ UNCHANGED <<pureVars, mgrVars, settings>>
    \/ ModifyNotice(NoteA) /\ UNCHANGED <<pureVars, mgrVars, settings>>
    \/ \E v \in Views : Destroy(v) /\ UNCHANGED <<pureVars, mgrVars, settings>>
    \/ Pass /\ UNCHANGED <<pureVars, mgrVars, settings>>

SpecSession == InitSession /\ [][NextSession]_vars

\* a guarded write completed less than the debounce window ago
InWindow == time.lastWrite # Never /\ time.now < time.lastWrite + Debounce

\* C21 as stated: from a Reconciler or flush write until the debounce window
\* (2 seconds) after it has passed the self-save guard is engaged, and the
\* handler of a change notification that arrives in this interval returns
\* without invalidating the cache or refreshing
C21_GuardWindow ==
    InWindow => (selfSaveCount > 0 /\ last.op # "modify")

\* the guard is engaged for the 500 ms after a write
C21_GuardHalfSecond ==
    (time.lastWrite # Never /\ time.now < time.lastWrite + GuardHold)
    => (selfSaveCount > 0 /\ last.op # "modify")

\* C22: a session has at most one flush timer pending, the one its last edit
\* started, due a full quiet period (2 seconds) after that edit; a flush runs
\* only when the quiet period has passed since the last edit of the session and
\* leaves no timer pending, so the edits of a burst share one flush
C22_Debounce ==
    \A v \in Views :
        /\ Cardinality(time.pending[v]) <= 1
        /\ \A tm \in time.pending[v] :
               /\ tm.n = time.handle[v]
               /\ tm.due = time.lastEdit[v] + Debounce
        /\ last.op = "flush"
           => /\ time.lastEdit[v] # Never
              /\ time.now >= time.lastEdit[v] + Debounce
              /\ time.pending[v] = {}
        /\ time.fired[v] <= edits

\* two edits less than 2 seconds apart, the second restarting the timer of the
\* first, and one flush after them
C22_Witness ==
    \E v \in Views :
        /\ last.op = "flush"
        /\ edits = 2
        /\ time.lastEdit[v] > 0
        /\ time.lastEdit[v] < Debounce
        /\ time.fired[v] = 1

----------------------------------------------------------------------------
(* The flush of the tracker plugin and the snapshot it keeps *)

\* the debounce timer of view v fires in this step
FlushStep(v) == views[v].timer /\ ~views'[v].timer /\ last'.op = "flush"

\* every annotation of the store that lineUpdates tracks is on its tracked line
OnTrackedLines(comments, lineUpdates) ==
    \A i \in 1..Len(comments) :
        comments[i].id \in DOMAIN lineUpdates
        => comments[i].start_line = lineUpdates[comments[i].id]

\* what C23 says of a flush of view v that finds the line map lineUpdates
SnapshotRule(v, lineUpdates) ==
    /\ lineUpdates = views[v].lastSnapshot
       => /\ persisted' = persisted
          /\ views'[v].lastSnapshot = views[v].lastSnapshot
    /\ lineUpdates # views[v].lastSnapshot
       => /\ views'[v].lastSnapshot = lineUpdates
          /\ OnTrackedLines(persisted'[views[v].path].comments, lineUpdates)
    /\ OnTrackedLines(getComments(views[v].path).comments, lineUpdates)
       => persisted' = persisted

\* C23 as stated: a flush whose id-to-line map equals the last flushed
\* snapshot persists nothing and keeps the snapshot; any other flush makes the
\* map the snapshot and persists the lines that changed in the store of the
\* document; a flush whose tracked lines are the stored startLines writes nothing
C23_FlushSnapshot ==
    [][\A v \in Views : FlushStep(v) => SnapshotRule(v, TrackedLines(views[v]))]_vars

\* the same for a flush that runs while the leaf of the session's document is
\* the active one
C23_ActiveSession ==
    [][\A v \in Views :
           (FlushStep(v) /\ activePath = views[v].path)
           => SnapshotRule(v, TrackedLines(views[v]))]_vars

----------------------------------------------------------------------------
(* The Reconciler and faults *)

\* the handler of an activation of note p runs in this step
ReconcileStep(p) ==
    last'.op = "reconcile" /\ last'.path = p /\ guardTimers' >= guardTimers

\* C25: a Reconciler pass that cannot read the document's text changes no
\* annotation of the store (anchor, snippet, stale flag), writes nothing and
\* does not engage the self-save guard
C25_UnreadableSkipped ==
    [][(ReconcileStep(NoteA) /\ ~noteDisk[NoteA].ok)
       => /\ getComments(NoteA)'.comments = getComments(NoteA).comments
          /\ persisted' = persisted
          /\ selfSaveCount' = selfSaveCount
          /\ guardTimers' = guardTimers]_vars

\* a pass has run on a store with an annotation while the note could not be read
C25_Witness ==
    /\ last.op = "reconcile"
    /\ last.path = NoteA
    /\ ~noteDisk[NoteA].ok
    /\ Len(getComments(NoteA).comments) > 0
    /\ last.saves = 0

----------------------------------------------------------------------------
(* The annotation store of note A when a write fails or the file is malformed *)

FaultStores == {Malformed, SavedStore(NoteA, <<SeedComment(2, "open")>>, 0)}

InitFaults ==
    /\ args = NoArgs
    /\ ret = NoRet
    /\ noteDisk = [p \in Paths |-> IF p = NoteA THEN File(ManagerNote) ELSE Unreadable]
    /\ \E st \in FaultStores :
           persisted = [p \in Paths |-> IF p = NoteA THEN st ELSE NoStore]
    /\ cache = [p \in Paths |-> NoStore]
    /\ selfSaveCount = 0
    /\ guardTimers = 0
    /\ edits = 0
    /\ activePath = NoteA
    /\ views = [v \in Views |-> ClosedView]
    /\ last = NoHandler
    /\ MgrIdle
    /\ settings = DefaultSettings
    /\ time = NoTime

NextFaults ==
    \/ CallGetComments(NoteA) /\ UNCHANGED <<pureVars, settings, time>>
    \/ SubmitComment(NoteA, DefaultAuthor, 2, 2) /\ UNCHANGED <<pureVars, settings, time>>
    \/ SubmitReply(NoteA, 1, DefaultAuthor, 0) /\ UNCHANGED <<pureVars, settings, time>>
    \/ ClickResolve(NoteA, 1, DefaultAuthor) /\ UNCHANGED <<pureVars, settings, time>>
    \/ LeafChange(NoteA) /\ UNCHANGED <<pureVars, settings, time>>
    \/ FlushTimer(NoteA, [i \in {1} |-> 1]) /\ UNCHANGED <<pureVars, settings, time>>
    \/ \E t \in TaskIds : ExistsDone(t) /\ UNCHANGED <<pureVars, settings, time>>
    \/ \E t \in TaskIds : ReadDone(t) /\ UNCHANGED <<pureVars, settings, time>>
    \/ \E t \in TaskIds : NoteDone(t) /\ UNCHANGED <<pureVars, settings, time>>
    \/ \E t \in TaskIds : WriteLands(t) /\ UNCHANGED <<pureVars, settings, time>>
    \/ \E t \in TaskIds : WriteFails(t) /\ UNCHANGED <<pureVars, settings, time>>
    \/ \E t \in TaskIds : WriteDone(t) /\ UNCHANGED <<pureVars, settings, time>>
    \/ UserRepairs(NoteA, SavedStore(NoteA, <<SeedComment(2, "open")>>, 0))
           /\ UNCHANGED <<pureVars, settings, time>>
    \/ GuardExpire /\ UNCHANGED <<pureVars, mgrVars, settings, time>>

SpecFaults == InitFaults /\ [][NextFaults]_vars

\* C26 as stated: after the write of a save has failed, the cached store of the
\* document is the persisted one: it holds nothing of the change that was not written
C26_FailedWriteCache ==
    (last.op = "failed" /\ cacheObj[last.path] # NoObj)
    => cache[last.path] = persisted[last.path]

\* C27: a getComments that reads a file JSON.parse rejects returns null, caches
\* nothing and leaves the file as it is; a getComments that finds no cached
\* store and reads a well-formed file, also after such a failure, returns the
\* persisted store and caches it
C27_MalformedIsAbsent ==
    AfterGet =>
        LET p == last.path
            r == last.f
        IN  /\ r.how = "malformed" =>
                   /\ r.obj = NoObj
                   /\ r.value = NoStore
                   /\ cacheObj[p] = NoObj
                   /\ cache[p] = NoStore
                   /\ persisted[p] = Malformed
            /\ ~Parses(persisted[p]) => r.how = "malformed"
            /\ (r.in.cached = NoObj /\ Parses(persisted[p])) =>
                   /\ r.how = "loaded"
                   /\ r.obj # NoObj
                   /\ cacheObj[p] = r.obj
                   /\ r.value = persisted[p]

\* the file was malformed, a getComments returned null, the user put a
\* well-formed store in its place, and a later getComments returned that store
C27_Witness ==
    /\ AfterGet
    /\ edits = 1
    /\ last.f.how = "loaded"
    /\ last.f.value = SavedStore(NoteA, <<SeedComment(2, "open")>>, 0)

\* a getComments has just returned null for the malformed file
C27_AbsentWitness ==
    AfterGet /\ last.f.how = "malformed" /\ persisted[last.path] = Malformed

----------------------------------------------------------------------------
(* findLineBySnippet with a hint beyond the document *)

\* C28 as stated: for every hint line, also one at or beyond the last line of
\* the document, findLineBySnippet ends with a match or with null, never with
\* an exception
C28_NoFailure == Returned => ret # TypeError

\* so stated, every pass of the Reconciler gives each annotation of the store
\* an outcome: none ends the loop with an exception and none is left out
C28_PassGoesOn ==
    last.op = "reconcile" =>
        \A i \in 1..Len(last.outcomes) : last.outcomes[i] \notin {"throw", "unprocessed"}

\* what holds: a hint on a line of the document or on the line after the last
\* one is searched without an exception, the second only among existing lines
C28_HintAtMostOnePast ==
    (Returned /\ args.hintLine <= Len(args.docLines)) =>
        /\ ret # TypeError
        /\ ret.kind = "match" => ret.line \in 0..(Len(args.docLines) - 1)

----------------------------------------------------------------------------
(* The update of a flush and the update of a relocation *)

\* stores of one annotation that an earlier pass has marked stale or has not:
\* its snippet is the start of its line, or a text no line of the note has
StaleStores(lines) ==
    {CommentFile(NoteA, <<[NewComment(1, l, l, sn) EXCEPT !.is_stale = st]>>) :
         l \in 1..2, sn \in {B2, A3}, st \in BOOLEAN}

InitStale ==
    /\ args = NoArgs
    /\ ret = NoRet
    /\ \E lines \in TrackerNotes :
           /\ noteDisk = [p \in Paths |-> IF p = NoteA THEN File(lines) ELSE File(<<A3>>)]
           /\ views = [v \in Views |-> OpenedView(NoteA, lines)]
           /\ \E st \in StaleStores(lines) :
                  persisted = [p \in Paths |-> IF p = NoteA THEN st ELSE NoStore]
    /\ cache = [p \in Paths |-> NoStore]
    /\ selfSaveCount = 0
    /\ guardTimers = 0
    /\ edits = 0
    /\ activePath = NoteA
    /\ last = NoHandler
    /\ MgrIdle
    /\ settings = DefaultSettings
    /\ time = NoTime

NextStale ==
    \/ ActiveLeafChange(NoteA) /\ UNCHANGED <<pureVars, mgrVars, settings, time>>
    \/ GuardExpire /\ UNCHANGED <<pureVars, mgrVars, settings, time>>
    \/ \E v \in Views, at \in 1..3 :
           InsertLines(v, 1, at) /\ UNCHANGED <<pureVars, mgrVars, settings, time>>
    \/ \E v \in Views, at \in 1..3 :
           RemoveLines(v, 1, at) /\ UNCHANGED <<pureVars, mgrVars, settings, time>>
    \/ \E v \in Views : SaveNote(v) /\ UNCHANGED <<pureVars, mgrVars, settings, time>>
    \/ \E v \in Views : Flush(v) /\ UNCHANGED <<pureVars, mgrVars, settings, time>>

SpecStale == InitStale /\ [][NextStale]_vars

\* the lines saveTrackedPositions has read for the flush just done
FlushDocLines ==
    IF noteDisk[last.path].ok /\ ~EmptyText(noteDisk[last.path])
    THEN noteDisk[last.path].lines ELSE <<>>

\* the annotations the flush just done has moved
MovedByFlush ==
    IF last.op = "flush"
    THEN {i \in 1..Len(last.outcomes) : last.outcomes[i] = "moved"}
    ELSE {}

\* the annotations moved by the flush just done have the update of a successful
\* relocation to their new line
FlushAsRelocation ==
    \A i \in MovedByFlush :
        LET after == cache[last.path].comments[i]
            idx == after.start_line - 1
        IN  idx < Len(FlushDocLines) =>
                after = Relocate(last.pre[i], FlushDocLines, Match(idx, One)).comment

\* the same but for is_stale, which is as it was before the flush
FlushAsRelocationButStale ==
    \A i \in MovedByFlush :
        LET after == cache[last.path].comments[i]
            idx == after.start_line - 1
        IN  idx < Len(FlushDocLines) =>
                after = [Relocate(last.pre[i], FlushDocLines, Match(idx, One)).comment
                            EXCEPT !.is_stale = last.pre[i].is_stale]

\* C29 as stated: an annotation the flush moves to a line of the note gets the
\* update of a successful relocation to that line: start_line the new line,
\* end_line shifted by the same delta, the snippet captured from the new line,
\* and is_stale cleared
C29_FlushAsRelocation ==
    [][(\E v \in Views : FlushStep(v)) => FlushAsRelocation']_vars

\* what holds: the flush changes start_line, end_line and the snippet as the
\* relocation does, and leaves is_stale as it was
C29_SameButStale ==
    [][(\E v \in Views : FlushStep(v)) => FlushAsRelocationButStale']_vars

----------------------------------------------------------------------------
(* Passes of the Reconciler for one document *)

\* the passes of verifyAndRelocateComments for p that have started and have
\* not yet returned
PassesInProgress(p) ==
    {t \in TaskIds : /\ tasks[t].pc # "idle"
                     /\ tasks[t].op = "reconcile"
                     /\ tasks[t].path = p
                     /\ tasks[t].phase = "main"}

\* C30 as stated: at no time are two passes of the Reconciler for the same
\* document in progress
C30_OnePassAtATime == \A p \in Paths : Cardinality(PassesInProgress(p)) <= 1

----------------------------------------------------------------------------
(* The self-save guard counter *)

\* C31 as stated: once no handler is running and every suppression window has
\* expired the guard counter is back at zero, also after a write that failed
C31_GuardReturnsToZero ==
    (Running = 0 /\ guardTimers = 0) => selfSaveCount = 0

\* what holds, also with failing writes: the counter is never negative and is
\* at least the number of windows that have not yet expired, so the guard is
\* engaged until the window of the last overlapping writer has expired
C31_EngagedWhilePending ==
    /\ selfSaveCount >= 0
    /\ selfSaveCount >= guardTimers
    /\ guardTimers > 0 => selfSaveCount > 0

----------------------------------------------------------------------------
(* Two documents with stores: writes of the plugin to A, another tool writing B *)

InitTwoDocs ==
    /\ args = NoArgs
    /\ ret = NoRet
    /\ noteDisk = [p \in Paths |-> IF p = NoteA THEN File(ManagerNote) ELSE File(<<A3>>)]
    /\ persisted = [p \in Paths |->
           IF p = NoteA THEN SavedStore(NoteA, <<SeedComment(2, "open")>>, 0)
           ELSE SavedStore(NoteB, <<SeedComment(1, "open")>>, 0)]
    /\ cache = [p \in Paths |-> NoStore]
    /\ selfSaveCount = 0
    /\ guardTimers = 0
    /\ edits = 0
    /\ activePath = NoteA
    /\ views = [v \in Views |-> ClosedView]
    /\ last = NoHandler
    /\ MgrIdle
    /\ settings = DefaultSettings
    /\ time = NoTime

NextTwoDocs ==
    \/ \E p \in Paths : CallGetComments(p) /\ UNCHANGED <<pureVars, settings, time>>
    \/ LeafChange(NoteA) /\ UNCHANGED <<pureVars, settings, time>>
    \/ FlushTimer(NoteA, [i \in {1} |-> 3]) /\ UNCHANGED <<pureVars, settings, time>>
    \/ \E t \in TaskIds : ExistsDone(t) /\ UNCHANGED <<pureVars, settings, time>>
    \/ \E t \in TaskIds : ReadDone(t) /\ UNCHANGED <<pureVars, settings, time>>
    \/ \E t \in TaskIds : NoteDone(t) /\ UNCHANGED <<pureVars, settings, time>>
    \/ \E t \in TaskIds : WriteLands(t) /\ UNCHANGED <<pureVars, settings, time>>
    \/ \E t \in TaskIds : WriteDone(t) /\ UNCHANGED <<pureVars, settings, time>>
    \/ \E p \in Paths : VaultModify(p) /\ UNCHANGED <<pureVars, settings, time>>
    \/ OtherToolResolves(NoteB) /\ UNCHANGED <<pureVars, settings, time>>
    \/ GuardExpire /\ UNCHANGED <<pureVars, mgrVars, settings, time>>

SpecTwoDocs == InitTwoDocs /\ [][NextTwoDocs]_vars

\* the change notification of B's store file has just been delivered; in
\* SpecTwoDocs only the other tool writes that file
ModifyDelivered(p) == events'[p] < events[p]

\* C32 as stated: the notification of an external modification of B's store
\* leaves B without a cache entry, also while the guard is engaged by a write of
\* the Reconciler or of the flush to A
C32_ExternalInvalidates ==
    [][ModifyDelivered(NoteB) => cacheObj'[NoteB] = NoObj]_vars

\* what holds: a notification delivered while the guard counter is 0 invalidates
C32_UnguardedInvalidates ==
    [][(ModifyDelivered(NoteB) /\ selfSaveCount = 0) => cacheObj'[NoteB] = NoObj]_vars

----------------------------------------------------------------------------
(* The line aggregate and the tracked offsets of a view between two seeds *)

AggregateStores ==
    {CommentFile(NoteA, <<NewComment(1, l, l, captureSnippet(SessionNote[l]))>>) : l \in 1..2}
    \cup {CommentFile(NoteA, <<NewComment(1, 1, 1, A3), NewComment(2, 2, 2, B2)>>)}

InitAggregate ==
    /\ args = NoArgs
    /\ ret = NoRet
    /\ noteDisk = [p \in Paths |-> IF p = NoteA THEN File(SessionNote) ELSE Unreadable]
    /\ \E st \in AggregateStores :
           persisted = [p \in Paths |-> IF p = NoteA THEN st ELSE NoStore]
    /\ cache = [p \in Paths |-> NoStore]
    /\ selfSaveCount = 0
    /\ guardTimers = 0
    /\ edits = 0
    /\ activePath = NoteA
    /\ views = [v \in Views |-> OpenedView(NoteA, SessionNote)]
    /\ last = NoHandler
    /\ MgrIdle
    /\ settings = DefaultSettings
    /\ time = [NoTime EXCEPT !.clocked = TRUE]

\* what happens within the quiet period of a session: the timers do not fire
NextAggregate ==
    \/ TimedLeafChange /\ UNCHANGED <<pureVars, mgrVars, settings>>
    \/ \E v \in Views, at \in 1..3 :
           InsertLines(v, 1, at) /\ PluginUpdate(v) /\ UNCHANGED <<pureVars, mgrVars, settings>>
    \/ \E v \in Views, at \in 1..3 :
           RemoveLines(v, 1, at) /\ PluginUpdate(v) /\ UNCHANGED <<pureVars, mgrVars, settings>>
    \/ \E v \in Views, at \in 1..3, col \in 1..3 :
           SplitLine(v, at, col) /\ PluginUpdate(v) /\ UNCHANGED <<pureVars, mgrVars, settings>>
    \/ \E v \in Views : SaveNote(v) /\ UNCHANGED <<pureVars, mgrVars, settings, time>>

SpecAggregate == InitAggregate /\ [][NextAggregate]_vars

\* the annotations a view tracks that the gutter shows, and those of them whose
\* tracked offset is on line L of the buffer
TrackedVisible(view) ==
    LET comments == getComments(view.path).comments
    IN  {id \in DOMAIN view.offsets :
            /\ settings.showGutterIndicators
            /\ \E i \in VisibleIn(comments) : comments[i].id = id}
TrackedOn(view, L) == {id \in TrackedVisible(view) : TrackedLines(view)[id] = L}

\* the count the gutter has for line L
BucketCount(view, L) == IF L \in DOMAIN view.lineMap THEN view.lineMap[L].count ELSE 0

\* the gutter of view v has on every line of the buffer the count of the tracked
\* visible annotations whose offset is on that line
Agrees(v) ==
    views[v].open =>
        \A L \in 1..Len(views[v].doc) :
            BucketCount(views[v], L) = Cardinality(TrackedOn(views[v], L))

\* every tracked offset of view v is the start of a line, as after a seed
AtLineStarts(v) ==
    \A id \in DOMAIN views[v].offsets :
        \E L \in 1..Len(views[v].doc) : views[v].offsets[id] = LineFrom(views[v].doc, L)

\* C33 as stated: whatever the edits since the last seed, for every line of the
\* buffer the count of its bucket is the number of tracked visible annotations
\* whose offset is on that line
C33_AggregateFollowsTracker == \A v \in Views : Agrees(v)

\* what holds: a step from a state in which they agree and every tracked offset
\* is the start of a line leads to a state in which they agree
C33_AgreesFromLineStarts ==
    [][\A v \in Views : (Agrees(v) /\ AtLineStarts(v)) => Agrees(v)']_vars

----------------------------------------------------------------------------
(* First annotations of a note added by overlapping addComment calls *)

InitInterleave ==
    /\ args = NoArgs
    /\ ret = NoRet
    /\ noteDisk = [p \in Paths |-> IF p = NoteA THEN File(ManagerNote) ELSE Unreadable]
    /\ persisted = [p \in Paths |-> NoStore]
    /\ cache = [p \in Paths |-> NoStore]
    /\ selfSaveCount = 0
    /\ guardTimers = 0
    /\ edits = 0
    /\ activePath = NoteA
    /\ views = [v \in Views |-> ClosedView]
    /\ last = NoHandler
    /\ MgrIdle
    /\ settings = DefaultSettings
    /\ time = NoTime

NextInterleave ==
    \/ \E line \in 1..2 :
           SubmitComment(NoteA, DefaultAuthor, line, line) /\ UNCHANGED <<pureVars, settings, time>>
    \/ \E t \in TaskIds : ExistsDone(t) /\ UNCHANGED <<pureVars, settings, time>>
    \/ \E t \in TaskIds : ReadDone(t) /\ UNCHANGED <<pureVars, settings, time>>
    \/ \E t \in TaskIds : WriteLands(t) /\ UNCHANGED <<pureVars, settings, time>>
    \/ \E t \in TaskIds : WriteDone(t) /\ UNCHANGED <<pureVars, settings, time>>
    \/ VaultModify(NoteA) /\ UNCHANGED <<pureVars, settings, time>>

SpecInterleave == InitInterleave /\ [][NextInterleave]_vars

\* C34 as stated, for addComment calls on a note without a store: when every
\* call has completed, the persisted store holds the annotation of each of them
C34_NoLostAdd ==
    Running = 0 => Cardinality(IdsIn(persisted[NoteA])) = started


----------------------------------------------------------------------------
(* A session of note A while the leaf of note B can be the active one *)

\* both notes have a store, and the first annotation of each has id 1
InitTwoNotes ==
    /\ args = NoArgs
    /\ ret = NoRet
    /\ noteDisk = [p \in Paths |-> IF p = NoteA THEN File(<<A3, A4S>>) ELSE File(<<B2, A3>>)]
    /\ persisted = [p \in Paths |->
           IF p = NoteA THEN CommentFile(NoteA, <<NewComment(1, 1, 1, A3)>>)
           ELSE CommentFile(NoteB, <<NewComment(1, 1, 1, B2)>>)]
    /\ cache = [p \in Paths |-> NoStore]
    /\ selfSaveCount = 0
    /\ guardTimers = 0
    /\ edits = 0
    /\ activePath = NoteA
    /\ views = [v \in Views |-> OpenedView(NoteA, <<A3, A4S>>)]
    /\ last = NoHandler
    /\ MgrIdle
    /\ settings = DefaultSettings
    /\ time = NoTime

NextTwoNotes ==
    \/ \E p \in Paths : ActiveLeafChange(p) /\ UNCHANGED <<pureVars, mgrVars, settings, time>>
    \/ ActiveLeafChangeOther /\ UNCHANGED <<pureVars, mgrVars, settings, time>>
    \/ GuardExpire /\ UNCHANGED <<pureVars, mgrVars, settings, time>>
    \/ \E v \in Views, k \in 1..2, at \in 1..2 :
           InsertLines(v, k, at) /\ UNCHANGED <<pureVars, mgrVars, settings, time>>
    \/ \E v \in Views : SaveNote(v) /\ UNCHANGED <<pureVars, mgrVars, settings, time>>
    \/ \E v \in Views : Flush(v) /\ UNCHANGED <<pureVars, mgrVars, settings, time>>

SpecTwoNotes == InitTwoNotes /\ [][NextTwoNotes]_vars

\* a flush of view v leaves the stores of the other documents as they are
OnlyOwnStore(v) ==
    \A q \in Paths \ {views[v].path} :
        /\ persisted'[q] = persisted[q]
        /\ getComments(q)' = getComments(q)

\* a flush of view v whose tracked lines differ from the last snapshot leaves
\* the annotations of its document persisted on their tracked lines
OwnLinesPersisted(v) ==
    (/\ DOMAIN TrackedLines(views[v]) # {}
     /\ SnapshotChanged(TrackedLines(views[v]), views[v].lastSnapshot))
    => OnTrackedLines(persisted'[views[v].path].comments, TrackedLines(views[v]))

\* C35 as stated: a flush of the session of a document writes to the store of
\* that document only, whatever the active leaf and the ids of the annotations
\* of other documents, and persists the changed lines of its document
C35_FlushOwnDocument ==
    [][\A v \in Views : FlushStep(v) => (OnlyOwnStore(v) /\ OwnLinesPersisted(v))]_vars

\* the two halves of it
C35_OnlyOwnStore == [][\A v \in Views : FlushStep(v) => OnlyOwnStore(v)]_vars
C35_OwnLinesPersisted == [][\A v \in Views : FlushStep(v) => OwnLinesPersisted(v)]_vars

\* what holds: a flush that runs while the leaf of the session's document is
\* the active one writes to that document's store only and persists its lines
C35_WhileActive ==
    [][\A v \in Views :
           (FlushStep(v) /\ activePath = views[v].path)
           => (OnlyOwnStore(v) /\ OwnLinesPersisted(v))]_vars

----------------------------------------------------------------------------
(* An annotation added between a buffer edit and its flush *)

InitReseed ==
    /\ args = NoArgs
    /\ ret = NoRet
    /\ \E lines \in TrackerNotes :
           /\ noteDisk = [p \in Paths |-> IF p = NoteA THEN File(lines) ELSE File(<<A3>>)]
           /\ views = [v \in Views |-> OpenedView(NoteA, lines)]
    /\ persisted = [p \in Paths |-> NoStore]
    /\ cache = [p \in Paths |-> NoStore]
    /\ selfSaveCount = 0
    /\ guardTimers = 0
    /\ edits = 0
    /\ activePath = NoteA
    /\ last = NoHandler
    /\ MgrIdle
    /\ settings = DefaultSettings
    /\ time = NoTime

\* the leaf of the note stays the active one and no pass of the Reconciler runs
NextReseed ==
    \/ \E s \in 1..MaxNoteLines :
           AddComment(NoteA, s, s) /\ UNCHANGED <<pureVars, mgrVars, settings, time>>
    \/ \E v \in Views, k \in 1..2, at \in 1..MaxNoteLines :
           InsertLines(v, k, at) /\ UNCHANGED <<pureVars, mgrVars, settings, time>>
    \/ \E v \in Views, at \in 1..MaxNoteLines :
           RemoveLines(v, 1, at) /\ UNCHANGED <<pureVars, mgrVars, settings, time>>
    \/ \E v \in Views : SaveNote(v) /\ UNCHANGED <<pureVars, mgrVars, settings, time>>
    \/ \E v \in Views : Flush(v) /\ UNCHANGED <<pureVars, mgrVars, settings, time>>
    \/ GuardExpire /\ UNCHANGED <<pureVars, mgrVars, settings, time>>

SpecReseed == InitReseed /\ [][NextReseed]_vars

\* the stored start_line of annotation i is the one it had when the buffer was
\* edited, moved by delta
StoredOn(i, delta) ==
    /\ i <= Len(SessionPost)
    /\ SessionPost[i].start_line = last.edit.pre[i].start_line + delta

\* after the flush that follows an edit, every annotation that was tracked on
\* its line when the buffer was edited is stored on the line its text has now
MovementStored ==
    \A i \in 1..Len(last.edit.pre) : TrackedAtStoredLine(i) =>
        /\ LinesInsertedAbove(i) => StoredOn(i, last.edit.k)
        /\ LinesRemovedAbove(i) => StoredOn(i, 0 - last.edit.k)
        /\ LinesChangedBelow(i) => StoredOn(i, 0)

\* C36 as stated: also when an annotation is added to the store between the
\* edit and its flush, the flush leaves every annotation stored on the line
\* that holds its text
C36_ReseedKeepsMovement == AfterFlush => MovementStored

\* what holds: the same when the flush is the first handler after the edit
C36_NoStoreChange == (AfterFlush /\ last.prev.op \in BufferEdits) => MovementStored

----------------------------------------------------------------------------
(* A session left alone: what follows the last edit and the last activation *)

\* the user and the editor act during the first MaxNow units of time
Active == time.now < MaxNow

\* a timer or the timeout of a guard is set for a later time
Waiting ==
    \/ \E v \in Views : \E tm \in time.pending[v] : tm.due > time.now
    \/ \E g \in time.guards : g > time.now

\* UnitMs milliseconds pass, also after MaxNow while a timeout is awaited
PassOn ==
    /\ Active \/ Waiting
    /\ time' = [time EXCEPT !.now = @ + 1]
    /\ UNCHANGED <<noteDisk, persisted, cache, selfSaveCount, guardTimers, edits,
                   activePath, views, last>>

\* the steps of the user and of the editor
SettleActivate == Active /\ TimedLeafChange /\ UNCHANGED <<pureVars, mgrVars, settings>>
SettleEdit(v) == Active /\ InsertLines(v, 1, 1) /\ PluginUpdate(v) /\ UNCHANGED <<pureVars, mgrVars, settings>>
SettleSave(v) == Active /\ SaveNote(v) /\ UNCHANGED <<pureVars, mgrVars, settings, time>>
\* the steps of the event loop
SettleTimer(v) == TimerFires(v) /\ UNCHANGED <<pureVars, mgrVars, settings>>
SettleGuard == GuardReleased /\ UNCHANGED <<pureVars, mgrVars, settings>>
SettleNotice == ModifyNotice(NoteA) /\ UNCHANGED <<pureVars, mgrVars, settings>>
SettlePass == PassOn /\ UNCHANGED <<pureVars, mgrVars, settings>>

NextSettle ==
    \/ SettleActivate
    \/ \E v \in Views : SettleEdit(v)
    \/ \E v \in Views : SettleSave(v)
    \/ \E v \in Views : SettleTimer(v)
    \/ SettleGuard
    \/ SettleNotice
    \/ SettlePass

\* a timeout that is due fires, a notification is delivered, time goes on
SpecSettle ==
    /\ InitSession
    /\ [][NextSettle]_vars
    /\ \A v \in Views : WF_vars(SettleTimer(v))
    /\ WF_vars(SettleGuard)
    /\ WF_vars(SettleNotice)
    /\ WF_vars(SettlePass)

EnvStep == SettleActivate \/ \E v \in Views : SettleEdit(v) \/ SettleSave(v)

\* no flush timer is pending and the guard is released
Settled ==
    /\ \A v \in Views : time.pending[v] = {}
    /\ time.guards = {}
    /\ selfSaveCount = 0

\* the notification of a write of the Reconciler or of the flush is ignored
OwnNoticeIgnored == [][SettleNotice => last'.op = "modifyIgnored"]_vars

\* the handler of a notification and the seeding of the tracker write no store
\* and schedule no flush
NoFurtherWrite ==
    [][(SettleNotice \/ SettleActivate)
           => /\ time'.pending = time.pending
              /\ SettleNotice => persisted' = persisted]_vars

\* once the user and the editor take no more steps, the store is written
\* finitely often, every timer has fired and the guard counter is 0
Settles ==
    (<>[][~EnvStep]_vars) => (<>[]Settled /\ <>[][persisted' = persisted]_vars)

\* C37 as stated: the notification of a write of the Reconciler or of the flush
\* is ignored, neither it nor the seeding of the tracker leads to a write or to
\* a flush timer, and a session left alone comes to rest with no timer pending
\* and the guard counter 0
C37_NoFeedback == OwnNoticeIgnored /\ NoFurtherWrite /\ Settles

\* what holds: the same but for the notification being ignored
C37_ComesToRest == NoFurtherWrite /\ Settles

----------------------------------------------------------------------------
(* The span of an annotation under the Reconciler and the flush *)

SpanOf(comment) == comment.end_line - comment.start_line

\* every annotation of `before` that is in `after` has kept its span and the
\* order of its two lines, and starts on line 1 or later
SpansKept(before, after) ==
    \A i \in 1..Len(before) : \A j \in 1..Len(after) :
        after[j].id = before[i].id
        => /\ SpanOf(after[j]) = SpanOf(before[i])
           /\ before[i].start_line <= before[i].end_line
              => after[j].start_line <= after[j].end_line
           /\ before[i].start_line >= 1 => after[j].start_line >= 1

\* C38: every update of the Reconciler and of the flush shifts start_line and
\* end_line of an annotation by the same delta: end_line - start_line is kept,
\* so start_line <= end_line is preserved, and start_line stays >= 1
C38_SameDelta ==
    [][last'.op \in {"reconcile", "flush"}
          => \A p \in Paths : SpansKept(persisted[p].comments, persisted'[p].comments)]_vars

\* the last handler moved an annotation that spans more than one line
MovedSpan(op) ==
    /\ last.op = op
    /\ last.path \in Paths
    /\ \E i \in 1..Len(last.pre) : \E j \in 1..Len(persisted[last.path].comments) :
           /\ persisted[last.path].comments[j].id = last.pre[i].id
           /\ persisted[last.path].comments[j].start_line # last.pre[i].start_line
           /\ last.pre[i].end_line > last.pre[i].start_line

C38_FlushedSpan == MovedSpan("flush")

----------------------------------------------------------------------------
(* A note with a store is renamed while handlers of the plugin may be running *)

RenameSeed == <<SeedComment(1, "open")>>

InitRename ==
    /\ args = NoArgs
    /\ ret = NoRet
    /\ noteDisk = [p \in Paths |-> IF p = NoteA THEN File(ManagerNote) ELSE Unreadable]
    /\ persisted = [p \in Paths |->
           IF p = NoteA THEN SavedStore(NoteA, RenameSeed, 0) ELSE NoStore]
    /\ cache = [p \in Paths |-> NoStore]
    /\ selfSaveCount = 0
    /\ guardTimers = 0
    /\ edits = 0
    /\ activePath = NoteA
    /\ views = [v \in Views |-> ClosedView]
    /\ last = NoHandler
    /\ MgrIdle
    /\ settings = DefaultSettings
    /\ time = NoTime

NextRename ==
    \/ RenameNote(NoteA, NoteB) /\ UNCHANGED <<pureVars, cache, settings, time>>
    \/ \E t \in TaskIds : RenameExists(t) /\ UNCHANGED <<pureVars, settings, time>>
    \/ \E t \in TaskIds : RenameStore(t) /\ UNCHANGED <<pureVars, settings, time>>
    \/ \E t \in TaskIds : RenameRead(t) /\ UNCHANGED <<pureVars, settings, time>>
    \/ \E p \in Paths : CallGetComments(p) /\ UNCHANGED <<pureVars, settings, time>>
    \/ \E p \in Paths : SubmitComment(p, DefaultAuthor, 1, 1) /\ UNCHANGED <<pureVars, settings, time>>
    \/ \E t \in TaskIds : ExistsDone(t) /\ UNCHANGED <<pureVars, settings, time>>
    \/ \E t \in TaskIds : ReadDone(t) /\ UNCHANGED <<pureVars, settings, time>>
    \/ \E t \in TaskIds : WriteLands(t) /\ UNCHANGED <<pureVars, settings, time>>
    \/ \E t \in TaskIds : WriteDone(t) /\ UNCHANGED <<pureVars, settings, time>>
    \/ \E p \in Paths : VaultModify(p) /\ UNCHANGED <<pureVars, settings, time>>
    \/ GuardExpire /\ UNCHANGED <<pureVars, mgrVars, settings, time>>

SpecRename == InitRename /\ [][NextRename]_vars

\* what a getComments(p) called now returns
Returns(p) ==
    IF cacheObj[p] # NoObj THEN heap[cacheObj[p]]
    ELSE IF Parses(persisted[p]) THEN persisted[p] ELSE NoStore

RenameRunning == \E t \in TaskIds : tasks[t].op = "rename"
RenameOver == edits > 0 /\ ~RenameRunning

\* store carries the annotations of the renamed note under the path p
Carries(store, p) ==
    /\ store.exists
    /\ store.note_path = p
    /\ \A i \in 1..Len(RenameSeed) : \E j \in 1..Len(store.comments) :
           store.comments[j] = RenameSeed[i]

\* after the rename of A to B: B's store file and getComments(B) have the
\* annotations of A under the path B, getComments(A) returns null
StoreMoved ==
    /\ Carries(persisted[NoteB], NoteB)
    /\ Carries(Returns(NoteB), NoteB)
    /\ ~Returns(NoteA).exists

\* a store names the path it is kept under, in its file and in the cache
PathsAgree ==
    \A p \in Paths :
        /\ persisted[p].exists => persisted[p].note_path = p
        /\ cacheObj[p] # NoObj => heap[cacheObj[p]].note_path = p

\* C39 as stated: once the rename handler has completed, the annotations of the
\* old path are persisted and returned for the new path and getComments of the
\* old path returns null; outside a running rename every cached or persisted
\* store names the path it is stored under
C39_RenameMovesStore ==
    /\ RenameOver => StoreMoved
    /\ ~RenameRunning => PathsAgree

\* what holds: the same when no other handler has been called
C39_RenameAlone == started = 0 => C39_RenameMovesStore

----------------------------------------------------------------------------
(* The snippet a flush stores for an annotation it has moved *)

\* the annotations of p that the step has moved have, as their snippet, the
\* capture of the line of `lines` they are now stored on
MovedCapture(p, lines) ==
    \A i \in 1..Len(persisted[p].comments) : \A j \in 1..Len(persisted'[p].comments) :
        (/\ persisted'[p].comments[j].id = persisted[p].comments[i].id
         /\ persisted'[p].comments[j].start_line # persisted[p].comments[i].start_line)
        => /\ persisted'[p].comments[j].start_line \in 1..Len(lines)
           /\ persisted'[p].comments[j].content_snippet =
                  captureSnippet(lines[persisted'[p].comments[j].start_line])

\* the flush of view v, the view of the active note
OwnFlushStep(v) == FlushStep(v) /\ activePath = views[v].path

\* C40 as stated: an annotation a flush has moved is stored with the capture of
\* the line at its new start_line in the buffer of the session, also when the
\* note on disk lags behind the buffer or cannot be read, so that the next
\* Reconciler pass over that text confirms the anchor
C40_SnippetOfBuffer ==
    [][\A v \in Views : OwnFlushStep(v) => MovedCapture(views[v].path, views[v].doc)]_vars

\* what holds: the same when the note on disk has the lines of the buffer
C40_SnippetWhenSaved ==
    [][\A v \in Views : (OwnFlushStep(v) /\ noteDisk[views[v].path] = File(views[v].doc))
           => MovedCapture(views[v].path, views[v].doc)]_vars

\* what holds: the snippet is the capture of the line at the new start_line of
\* the note on disk, if the disk has such a line, and is left as it was if not
C40_SnippetOfDisk ==
    [][\A v \in Views : OwnFlushStep(v) =>
          \E p \in {views[v].path} : \E lines \in {IF noteDisk[p].ok THEN noteDisk[p].lines ELSE <<>>} :
          \A i \in 1..Len(persisted[p].comments) : \A j \in 1..Len(persisted'[p].comments) :
              (/\ persisted'[p].comments[j].id = persisted[p].comments[i].id
               /\ persisted'[p].comments[j].start_line # persisted[p].comments[i].start_line)
              => persisted'[p].comments[j].content_snippet =
                     IF persisted'[p].comments[j].start_line \in 1..Len(lines)
                     THEN captureSnippet(lines[persisted'[p].comments[j].start_line])
                     ELSE persisted[p].comments[i].content_snippet]_vars

====
